---- MODULE Spec2Model ----
(***************************************************************************)
(* A model of egui_logger's EguiLogger (src/src/logger.rs): the           *)
(* per-severity retention store, the category ledger and the ingestion    *)
(* path  log -> get_log_record -> clean_record -> log_record ->           *)
(* enforce_limits; and the filter engine  filtered_records ->             *)
(* matches_filters -> format_record_text  with the configuration it reads; *)
(* the persisted form of the logger (derive Serialize, Deserialize); and   *)
(* a frame of render_logger_ui (src/src/ui.rs) with its search bar and    *)
(* its text input area.                                                    *)
(*                                                                         *)
(* A String is modelled as the sequence of its chars.  Rust measures and  *)
(* slices a String in UTF-8 bytes, so every char carries its encoded      *)
(* width: "a" and "." are 1-byte ASCII chars, "NL" is the newline char    *)
(* (1 byte) and "U2" stands for any char encoded on 2 bytes (e.g. U+00E9);*)
(* " " is the space and "TAB" the tab, both 1 byte.                        *)
(***************************************************************************)
EXTENDS Integers, Sequences, FiniteSets, TLC

VARIABLES
    records,                \* EguiLogger::records: level -> VecDeque<LogRecord>
    category_counts,        \* EguiLogger::category_counts: HashMap<String, u32>
    max_message_length,     \* EguiLogger::max_message_length (pub usize)
    max_records_per_level,  \* EguiLogger::max_records_per_level (pub usize)
    min_display_level,      \* EguiLogger::min_display_level (pub LogLevel)
    hidden_categories,      \* EguiLogger::hidden_categories: HashSet<String>
    time_format,            \* EguiLogger::time_format (pub TimeFormat)
    time_precision,         \* EguiLogger::time_precision (pub TimePrecision)
    show_categories,        \* EguiLogger::show_categories (pub bool)
    show_level,             \* EguiLogger::show_level (pub bool)
    search_term,            \* EguiLogger::search_term (pub String)
    search_regex,           \* EguiLogger::search_regex: Option<Regex>, <<>> is None
    search_with_regex,      \* EguiLogger::search_with_regex (pub bool)
    search_with_case_sensitive, \* EguiLogger::search_with_case_sensitive (pub bool)
    show_search,            \* EguiLogger::show_search (pub bool)
    should_focus_search,    \* EguiLogger::should_focus_search (serde skip)
    show_input_area,        \* EguiLogger::show_input_area (pub bool)
    should_focus_input,     \* EguiLogger::should_focus_input (pub bool, serde skip)
    input_text,             \* EguiLogger::input_text: String
    input_text_prefix,      \* EguiLogger::input_text_prefix (pub String)
    input_categories,       \* EguiLogger::input_categories: Vec<String>
    input_level,            \* EguiLogger::input_level (pub LogLevel)
    ingested,               \* history: per level, the records pushed since new()/clear()
    call,                   \* history: the last operation of the caller and its arguments
    panicked                \* the last operation panicked (the thread unwinds)

\* the configuration read by matches_filters and format_record_text
filterVars == <<min_display_level, hidden_categories, time_format, time_precision,
                show_categories, show_level, search_term, search_regex,
                search_with_regex, search_with_case_sensitive>>

\* the search bar and the text input area
inputVars == <<show_search, should_focus_search, show_input_area, should_focus_input,
               input_text, input_text_prefix, input_categories, input_level>>

\* what a write to the filter configuration leaves alone
storeVars == <<records, category_counts, max_message_length, max_records_per_level,
               ingested, panicked>>

vars == <<records, category_counts, max_message_length, max_records_per_level,
          min_display_level, hidden_categories, time_format, time_precision,
          show_categories, show_level, search_term, search_regex,
          search_with_regex, search_with_case_sensitive,
          show_search, should_focus_search, show_input_area, should_focus_input,
          input_text, input_text_prefix, input_categories, input_level,
          ingested, call, panicked>>

----------------------------------------------------------------------------
(* Bounds of the model. *)

\* ingestions per behaviour, counted since new() or the last clear()
MaxIngest == 3
\* the caller writes 0..MaxRecordsWritten to max_records_per_level
MaxRecordsWritten == 2
\* the caller writes 0..MaxLengthWritten to max_message_length
MaxLengthWritten == 4
\* messages handed to log have at most MaxMessageChars chars
MaxMessageChars == 4

----------------------------------------------------------------------------
(* types.rs: LogLevel, ordered by its discriminant. *)

Debug == 0
Info == 1
Warn == 2
Error == 3
LogLevel == {Debug, Info, Warn, Error}

\* new(): max_message_length: 2000, max_records_per_level: 2000
DefaultMaxMessageLength == 2000
DefaultMaxRecordsPerLevel == 2000

----------------------------------------------------------------------------
(* Strings. *)

Chars == {"a", "NL", "U2"}

\* char::len_utf8
Utf8Len(c) == IF c = "U2" THEN 2 ELSE 1

\* String::len: the length in bytes
ByteLen(s) ==
    Len(s) + Cardinality({i \in 1..Len(s) : Utf8Len(s[i]) = 2})

\* str::is_char_boundary(n): byte offset n is the start of a char or the end
IsCharBoundary(s, n) == \E k \in 0..Len(s) : ByteLen(SubSeq(s, 1, k)) = n

\* &s[..n] for a char boundary n
SliceTo(s, n) ==
    SubSeq(s, 1, CHOOSE k \in 0..Len(s) : ByteLen(SubSeq(s, 1, k)) = n)

\* the literal "..." of clean_record's format!
Ellipsis == <<".", ".", ".">>

\* a - b without saturation (on usize: a panic, or a wrap to a huge offset)
WrappingSub(a, b) == a - b

\* usize::saturating_sub
SaturatingSub(a, b) == IF a >= b THEN a - b ELSE 0

\* message_str.chars().filter(|c| !c.eq(&'\n')).collect()
StripNewlines(s) == SelectSeq(s, LAMBDA c : c # "NL")

----------------------------------------------------------------------------
(* Record construction and cleaning. *)

\* IntoCategories::into_categories: one String per given category, in order
IntoCategories(categories) == [i \in 1..Len(categories) |-> categories[i]]

\* get_log_record without the newline filter
GetLogRecordKeepsNewlines(level, categories, message, now) ==
    [timestamp |-> now,
     level |-> level,
     categories |-> IntoCategories(categories),
     message |-> message]

\* get_log_record(level, categories, message); now is the value of Local::now()
GetLogRecord(level, categories, message, now) ==
    [timestamp |-> now,
     level |-> level,
     categories |-> IntoCategories(categories),
     message |-> StripNewlines(message)]

\* clean_record: the slice &message[..n] panics unless n is a char boundary
CleanRecord(record, max_len) ==
    IF ByteLen(record.message) > max_len
    THEN LET n == SaturatingSub(max_len, 3)
         IN  IF IsCharBoundary(record.message, n)
             THEN [panic |-> FALSE,
                   record |-> [record EXCEPT
                                 !.message = SliceTo(record.message, n) \o Ellipsis]]
             ELSE [panic |-> TRUE, record |-> record]
    ELSE [panic |-> FALSE, record |-> record]

----------------------------------------------------------------------------
(* The category ledger. *)

EmptyCounts == [c \in {} |-> 0]

\* category_counts.get(c), an absent key read as 0
CountOf(counts, c) == IF c \in DOMAIN counts THEN counts[c] ELSE 0

\* .entry(c).and_modify(|count| *count += 1).or_insert(1)
CountInc(counts, c) ==
    IF c \in DOMAIN counts
    THEN [counts EXCEPT ![c] = @ + 1]
    ELSE counts @@ (c :> 1)

\* the decrement dropping the entry of a counter that reaches 0
CountDecRemovesAtZero(counts, c) ==
    IF c \in DOMAIN counts
    THEN (IF counts[c] = 1
          THEN [k \in DOMAIN counts \ {c} |-> counts[k]]
          ELSE [counts EXCEPT ![c] = @ - 1])
    ELSE counts

\* .entry(c).and_modify(|count| *count -= 1): no entry is created. A u32
\* counter is read modulo 2^32: below 0 it wraps, -1 standing for u32::MAX
\* (or the subtraction panics where overflow checks are on, see Commit)
CountDec(counts, c) ==
    IF c \in DOMAIN counts
    THEN [counts EXCEPT ![c] = @ - 1]
    ELSE counts

\* log_record's for_each counting each name of the list once
RECURSIVE CountIncAllOncePerName(_, _)
CountIncAllOncePerName(counts, categories) ==
    IF categories = <<>> THEN counts
    ELSE CountIncAllOncePerName(
             IF \E i \in 1..Len(Tail(categories)) : Tail(categories)[i] = Head(categories)
             THEN counts
             ELSE CountInc(counts, Head(categories)),
             Tail(categories))

\* log_record's for_each over log_record.categories
RECURSIVE CountIncAll(_, _)
CountIncAll(counts, categories) ==
    IF categories = <<>> THEN counts
    ELSE CountIncAll(CountInc(counts, Head(categories)), Tail(categories))

\* enforce_limit's for_each over r.categories
RECURSIVE CountDecAll(_, _)
CountDecAll(counts, categories) ==
    IF categories = <<>> THEN counts
    ELSE CountDecAll(CountDec(counts, Head(categories)), Tail(categories))

\* some decrement of CountDecAll meets a counter at 0
RECURSIVE Underflows(_, _)
Underflows(counts, categories) ==
    IF categories = <<>> THEN FALSE
    ELSE \/ (Head(categories) \in DOMAIN counts /\ counts[Head(categories)] = 0)
         \/ Underflows(CountDec(counts, Head(categories)), Tail(categories))

----------------------------------------------------------------------------
(* Retention. A store state st is [records, counts, underflow]. *)

\* enforce_limit with the loop test off by one
RECURSIVE EnforceLimitOffByOne(_, _, _)
EnforceLimitOffByOne(st, level, max_records) ==
    IF Len(st.records[level]) > max_records + 1
    THEN LET r == Head(st.records[level])
         IN  EnforceLimitOffByOne(
                 [records |-> [st.records EXCEPT ![level] = Tail(@)],
                  counts |-> CountDecAll(st.counts, r.categories),
                  underflow |-> st.underflow \/ Underflows(st.counts, r.categories)],
                 level, max_records)
    ELSE st

\* s without its element at index i
RemoveAt(s, i) == SubSeq(s, 1, i - 1) \o SubSeq(s, i + 1, Len(s))

\* enforce_limit evicting the record of the oldest timestamp instead of the front
RECURSIVE EnforceLimitByTimestamp(_, _, _)
EnforceLimitByTimestamp(st, level, max_records) ==
    IF Len(st.records[level]) > max_records
    THEN LET recs == st.records[level]
             i == CHOOSE j \in 1..Len(recs) :
                      /\ \A k \in 1..Len(recs) : recs[j].timestamp <= recs[k].timestamp
                      /\ \A k \in 1..(j - 1) : recs[k].timestamp > recs[j].timestamp
         IN  EnforceLimitByTimestamp(
                 [records |-> [st.records EXCEPT ![level] = RemoveAt(recs, i)],
                  counts |-> CountDecAll(st.counts, recs[i].categories),
                  underflow |-> st.underflow
                                  \/ Underflows(st.counts, recs[i].categories)],
                 level, max_records)
    ELSE st

\* enforce_limit with a loop that never pops the last record of a level
RECURSIVE EnforceLimitKeepsOne(_, _, _)
EnforceLimitKeepsOne(st, level, max_records) ==
    IF Len(st.records[level]) > max_records /\ Len(st.records[level]) > 1
    THEN LET r == Head(st.records[level])
         IN  EnforceLimitKeepsOne(
                 [records |-> [st.records EXCEPT ![level] = Tail(@)],
                  counts |-> CountDecAll(st.counts, r.categories),
                  underflow |-> st.underflow \/ Underflows(st.counts, r.categories)],
                 level, max_records)
    ELSE st

\* enforce_limit(level): while records.len() > max { pop_front; decrement }
RECURSIVE EnforceLimit(_, _, _)
EnforceLimit(st, level, max_records) ==
    IF Len(st.records[level]) > max_records
    THEN LET r == Head(st.records[level])
         IN  EnforceLimit(
                 [records |-> [st.records EXCEPT ![level] = Tail(@)],
                  counts |-> CountDecAll(st.counts, r.categories),
                  underflow |-> st.underflow \/ Underflows(st.counts, r.categories)],
                 level, max_records)
    ELSE st

\* enforce_limits leaving out the Debug level
EnforceLimitsSkipsDebug(st, max_records) ==
    EnforceLimit(
        EnforceLimit(
            EnforceLimit(st, Error, max_records),
            Warn, max_records),
        Info, max_records)

\* enforce_limits: Error, Warn, Info, Debug in turn
EnforceLimits(st, max_records) ==
    EnforceLimit(
        EnforceLimit(
            EnforceLimit(
                EnforceLimit(st, Error, max_records),
                Warn, max_records),
            Info, max_records),
        Debug, max_records)

\* default_records(): one empty VecDeque per level
DefaultRecords == [l \in LogLevel |-> <<>>]

----------------------------------------------------------------------------
(* Inputs of the caller. *)

Timestamps == {0, 1}
CategoryLists == {<<>>, <<"A", "A">>, <<"A", "B">>}
StoreLevels == {Debug, Error}
StoreMessages == {<<"a">>}

RECURSIVE SeqsUpTo(_, _)
SeqsUpTo(S, n) ==
    IF n = 0 THEN {<<>>}
    ELSE LET shorter == SeqsUpTo(S, n - 1)
         IN  shorter \cup {Append(s, c) : s \in shorter, c \in S}

Messages == SeqsUpTo(Chars, MaxMessageChars)

RECURSIVE SumLen(_, _)
SumLen(f, S) ==
    IF S = {} THEN 0
    ELSE LET l == CHOOSE x \in S : TRUE IN Len(f[l]) + SumLen(f, S \ {l})

\* records pushed since new() or the last clear()
Ingested == SumLen(ingested, LogLevel)

Called(op, level, message) == [op |-> op, level |-> level, message |-> message]

----------------------------------------------------------------------------
(* Text of a rendered line.  A char of text is a one-char string; a        *)
(* category name is the one-char string "A" or "B", or "Input", the        *)
(* default category of the text input area, rendered as one token.        *)

\* LogLevel::as_str
AsStr(level) ==
    IF level = Error THEN <<"E", "R", "R", "O", "R">>
    ELSE IF level = Warn THEN <<"W", "A", "R", "N">>
    ELSE IF level = Info THEN <<"I", "N", "F", "O">>
    ELSE <<"D", "E", "B", "U", "G">>

\* char::to_lowercase on the upper-case letters that occur in a line
LowerOf ==
    [A |-> "a", B |-> "b", D |-> "d", E |-> "e", F |-> "f", G |-> "g",
     I |-> "i", N |-> "n", O |-> "o", R |-> "r", T |-> "t", U |-> "u",
     W |-> "w", Z |-> "z", Input |-> "input"]

\* str::to_lowercase
ToLowercase(s) ==
    [i \in 1..Len(s) |-> IF s[i] \in DOMAIN LowerOf THEN LowerOf[s[i]] ELSE s[i]]

\* str::contains(&str): the pattern occurs as a contiguous run of chars
Contains(text, pattern) ==
    \E i \in 0..(Len(text) - Len(pattern)) :
        SubSeq(text, i + 1, i + Len(pattern)) = pattern

\* [String]::join(",")
RECURSIVE Join(_)
Join(categories) ==
    IF categories = <<>> THEN <<>>
    ELSE IF Len(categories) = 1 THEN <<Head(categories)>>
    ELSE <<Head(categories), ",">> \o Join(Tail(categories))

TimeFormat == {"Utc", "LocalTime", "Hide"}
TimePrecision == {"Seconds", "Milliseconds"}

\* the decimal digit of a timestamp: a time is t seconds after
\* 1970-01-01T00:00:00 in a local zone at offset 0, t < 10
Digit(t) == <<"0", "1", "2", "3", "4", "5", "6", "7", "8", "9">>[(t % 10) + 1]

\* chrono's "%T" (HH:MM:SS) and "%.3f"
HourMinSec(t) == <<"0", "0", ":", "0", "0", ":", "0", Digit(t)>>
Millis == <<".", "0", "0", "0">>

\* to_rfc3339_opts(precision, use_z = true) of the UTC time
Rfc3339(t, precision) ==
    <<"1", "9", "7", "0", "-", "0", "1", "-", "0", "1", "T">> \o HourMinSec(t)
        \o (IF precision = "Milliseconds" THEN Millis ELSE <<>>) \o <<"Z">>

\* format_time(time)
FormatTime(time) ==
    IF time_format = "Hide" THEN <<>>
    ELSE (IF time_format = "Utc" THEN Rfc3339(time, time_precision)
          ELSE HourMinSec(time)
                   \o (IF time_precision = "Milliseconds" THEN Millis ELSE <<>>))
         \o <<" ">>

\* get_time_format_padding(): the width of the formatted current time
GetTimeFormatPadding(now) == Len(FormatTime(now))

\* format!("{: >width$}", s): s right-aligned in width chars
PadLeft(s, width) ==
    IF Len(s) >= width THEN s ELSE [i \in 1..(width - Len(s)) |-> " "] \o s

\* format_record_text with the level tag rendered whatever show_level is
FormatRecordTextAlwaysLevel(record, now) ==
    LET level_str == <<"[">> \o AsStr(record.level) \o <<"]", " ">>
        category_str == IF show_categories
                        THEN <<"[">> \o Join(record.categories) \o <<"]", " ">>
                        ELSE <<>>
        time_str == PadLeft(FormatTime(record.timestamp), GetTimeFormatPadding(now))
    IN  time_str \o level_str \o category_str \o record.message

\* format_record_text(record), the current time being now
FormatRecordText(record, now) ==
    LET level_str == IF show_level
                     THEN <<"[">> \o AsStr(record.level) \o <<"]", " ">>
                     ELSE <<>>
        category_str == IF show_categories
                        THEN <<"[">> \o Join(record.categories) \o <<"]", " ">>
                        ELSE <<>>
        time_str == PadLeft(FormatTime(record.timestamp), GetTimeFormatPadding(now))
    IN  time_str \o level_str \o category_str \o record.message

----------------------------------------------------------------------------
(* The regex crate on the patterns of the model: a char stands for itself,  *)
(* "." for any char but a newline, "(" and ")" delimit a group.            *)

\* the nesting depth after each char of the pattern, -1 once a ")" has no "("
RECURSIVE GroupDepth(_, _)
GroupDepth(pattern, depth) ==
    IF depth < 0 \/ pattern = <<>> THEN depth
    ELSE GroupDepth(Tail(pattern),
                    IF Head(pattern) = "(" THEN depth + 1
                    ELSE IF Head(pattern) = ")" THEN depth - 1
                    ELSE depth)

\* RegexBuilder::build is Ok: every group is closed
IsValidPattern(pattern) == GroupDepth(pattern, 0) = 0

\* RegexBuilder::new(pattern).case_insensitive(ci).build().ok()
RegexBuild(pattern, ci) ==
    IF IsValidPattern(pattern)
    THEN <<[pattern |-> pattern, case_insensitive |-> ci]>>
    ELSE <<>>

\* Regex::is_match(text): the pattern matches somewhere in the text
IsMatch(regex, text) ==
    LET atoms == SelectSeq(regex.pattern, LAMBDA c : c \notin {"(", ")"})
        fold(s) == IF regex.case_insensitive THEN ToLowercase(s) ELSE s
        p == fold(atoms)
        t == fold(text)
    IN  \E i \in 0..(Len(t) - Len(p)) :
            \A j \in 1..Len(p) :
                IF atoms[j] = "." THEN t[i + j] # "NL" ELSE t[i + j] = p[j]

----------------------------------------------------------------------------
(* The filter engine. *)

\* the level gate rejecting the threshold level itself
LevelGateAboveOnly(record) == ~(record.level <= min_display_level)

\* matches_filters: the level gate (show this level and more severe)
LevelGate(record) == ~(record.level < min_display_level)

\* the category gate rejecting a record only when all its categories are hidden
CategoryGateAllHidden(record) ==
    ~(/\ hidden_categories # {}
      /\ \A i \in 1..Len(record.categories) :
             record.categories[i] \in hidden_categories)

\* the category gate rejecting, once a category is hidden, every record
\* that carries no category
CategoryGateRejectsUncategorized(record) ==
    ~(/\ hidden_categories # {}
      /\ \/ record.categories = <<>>
         \/ \E i \in 1..Len(record.categories) :
                record.categories[i] \in hidden_categories)

\* matches_filters: the category gate
CategoryGate(record) ==
    ~(/\ hidden_categories # {}
      /\ \E i \in 1..Len(record.categories) :
             record.categories[i] \in hidden_categories)

\* `matches` with only the formatted text lower-cased in the default mode
SearchMatchesLowersTextOnly(formatted) ==
    IF search_with_regex
    THEN (IF search_regex = <<>> THEN TRUE ELSE IsMatch(search_regex[1], formatted))
    ELSE IF search_with_case_sensitive
    THEN Contains(formatted, search_term)
    ELSE Contains(ToLowercase(formatted), search_term)

\* matches_filters: the value of `matches` on the formatted text
SearchMatches(formatted) ==
    IF search_with_regex
    THEN (IF search_regex = <<>> THEN TRUE ELSE IsMatch(search_regex[1], formatted))
    ELSE IF search_with_case_sensitive
    THEN Contains(formatted, search_term)
    ELSE Contains(ToLowercase(formatted), ToLowercase(search_term))

\* matches_filters: the search gate
SearchGate(record, now) ==
    search_term # <<>> => SearchMatches(FormatRecordText(record, now))

\* matches_filters returning before the search gate
MatchesFiltersWithoutSearch(record, now) ==
    /\ LevelGate(record)
    /\ CategoryGate(record)

\* matches_filters(record)
MatchesFilters(record, now) ==
    /\ LevelGate(record)
    /\ CategoryGate(record)
    /\ SearchGate(record, now)

\* the orders in which HashMap::values() may visit the four levels
RECURSIVE Orders(_)
Orders(S) ==
    IF S = {} THEN {<<>>}
    ELSE UNION {{<<x>> \o order : order \in Orders(S \ {x})} : x \in S}

LevelOrders == Orders(LogLevel)

\* records.values().flatten(), the levels visited in the given order
RECURSIVE Flatten(_, _)
Flatten(order, recs) ==
    IF order = <<>> THEN <<>> ELSE recs[Head(order)] \o Flatten(Tail(order), recs)

\* filtered_records()
FilteredRecords(order, now) ==
    SelectSeq(Flatten(order, records), LAMBDA record : MatchesFilters(record, now))

\* a sort that leaves the records in the order it found them
SortByKeyKeepsOrder(s) == s

\* Vec::sort_by_key(|r| r.timestamp): a stable sort, records of one timestamp
\* stay in the order they had
RECURSIVE SortByKeyTimestamp(_)
SortByKeyTimestamp(s) ==
    IF s = <<>> THEN <<>>
    ELSE LET last == s[Len(s)]
             sorted == SortByKeyTimestamp(SubSeq(s, 1, Len(s) - 1))
             before == SelectSeq(sorted, LAMBDA r : r.timestamp <= last.timestamp)
             after == SelectSeq(sorted, LAMBDA r : r.timestamp > last.timestamp)
         IN  before \o <<last>> \o after

\* render_logger_ui, the log display area: every stored record, sorted, the
\* records that fail the filter skipped
DisplayedRecords(order, now) ==
    SelectSeq(SortByKeyTimestamp(Flatten(order, records)),
              LAMBDA record : MatchesFilters(record, now))

\* render_logger_ui, the Copy button: the records that pass the filter, sorted
CopiedRecords(order, now) ==
    SortByKeyTimestamp(SelectSeq(Flatten(order, records),
                                 LAMBDA record : MatchesFilters(record, now)))

\* get_all_categories()
GetAllCategories == DOMAIN category_counts

\* total_records() summing the Error, Warn and Info sequences only
TotalRecordsWithoutDebug == SumLen(records, LogLevel \ {Debug})

\* total_records()
TotalRecords == SumLen(records, LogLevel)

----------------------------------------------------------------------------
(* Operations. *)

\* EguiLogger::new(): the filter configuration
InitFilter ==
    /\ min_display_level = Debug
    /\ hidden_categories = {}
    /\ time_format = "LocalTime"
    /\ time_precision = "Seconds"
    /\ show_categories = TRUE
    /\ show_level = TRUE
    /\ search_term = <<>>
    /\ search_regex = <<>>
    /\ search_with_regex = FALSE
    /\ search_with_case_sensitive = FALSE

\* EguiLogger::new(): the search bar and the text input area
InitInput ==
    /\ show_search = FALSE
    /\ should_focus_search = FALSE
    /\ show_input_area = TRUE
    /\ should_focus_input = FALSE
    /\ input_text = <<>>
    /\ input_text_prefix = <<>>
    /\ input_categories = <<"Input">>
    /\ input_level = Info

\* EguiLogger::new()
Init ==
    /\ records = DefaultRecords
    /\ category_counts = EmptyCounts
    /\ max_message_length = DefaultMaxMessageLength
    /\ max_records_per_level = DefaultMaxRecordsPerLevel
    /\ InitFilter
    /\ InitInput
    /\ ingested = [l \in LogLevel |-> <<>>]
    /\ call = Called("new", Info, <<>>)
    /\ panicked = FALSE

\* log_record without its call of enforce_limits
CommitWithoutEnforce(log_record) ==
    /\ records' = [records EXCEPT ![log_record.level] = Append(@, log_record)]
    /\ category_counts' = CountIncAll(category_counts, log_record.categories)
    /\ ingested' = [ingested EXCEPT ![log_record.level] = Append(@, log_record)]
    /\ panicked' = FALSE

\* log_record pushing the record at the front of its level
CommitPushFront(log_record) ==
    LET st == EnforceLimits(
                  [records |-> [records EXCEPT
                                  ![log_record.level] = <<log_record>> \o @],
                   counts |-> CountIncAll(category_counts, log_record.categories),
                   underflow |-> FALSE],
                  max_records_per_level)
    IN  /\ records' = st.records
        /\ category_counts' = st.counts
        /\ ingested' = [ingested EXCEPT ![log_record.level] = Append(@, log_record)]
        /\ panicked' \in (IF st.underflow THEN {TRUE, FALSE} ELSE {FALSE})

\* the body of log_record: count the categories, push_back, enforce_limits
Commit(log_record) ==
    LET st == EnforceLimits(
                  [records |-> [records EXCEPT
                                  ![log_record.level] = Append(@, log_record)],
                   counts |-> CountIncAll(category_counts, log_record.categories),
                   underflow |-> FALSE],
                  max_records_per_level)
    IN  /\ records' = st.records
        /\ category_counts' = st.counts
        /\ ingested' = [ingested EXCEPT ![log_record.level] = Append(@, log_record)]
        \* a decrement of a counter at 0 panics in a build with overflow checks
        /\ panicked' \in (IF st.underflow THEN {TRUE, FALSE} ELSE {FALSE})

\* log(level, categories, message)
Log(level, categories, message, now) ==
    LET cleaned == CleanRecord(GetLogRecord(level, categories, message, now),
                               max_message_length)
    IN  /\ ~panicked
        /\ call' = Called("log", level, message)
        /\ UNCHANGED <<max_message_length, max_records_per_level>>
        /\ UNCHANGED filterVars
        /\ UNCHANGED inputVars
        /\ IF cleaned.panic
           THEN /\ panicked' = TRUE
                /\ UNCHANGED <<records, category_counts, ingested>>
           ELSE Commit(cleaned.record)

\* log_record(log_record), a record built by the caller
LogRecord(log_record) ==
    /\ ~panicked
    /\ call' = Called("log_record", log_record.level, log_record.message)
    /\ UNCHANGED <<max_message_length, max_records_per_level>>
    /\ UNCHANGED filterVars
    /\ UNCHANGED inputVars
    /\ Commit(log_record)

\* clear() without category_counts.clear()
ClearKeepsLedger ==
    /\ ~panicked
    /\ records' = [l \in DOMAIN records |-> <<>>]
    /\ ingested' = [l \in LogLevel |-> <<>>]
    /\ call' = Called("clear", Info, <<>>)
    /\ UNCHANGED <<category_counts, max_message_length, max_records_per_level, panicked>>
    /\ UNCHANGED filterVars
    /\ UNCHANGED inputVars

\* clear() also forgetting the hidden categories
ClearResetsHidden ==
    /\ ~panicked
    /\ records' = [l \in DOMAIN records |-> <<>>]
    /\ category_counts' = EmptyCounts
    /\ hidden_categories' = {}
    /\ ingested' = [l \in LogLevel |-> <<>>]
    /\ call' = Called("clear", Info, <<>>)
    /\ UNCHANGED <<max_message_length, max_records_per_level, panicked>>
    /\ UNCHANGED <<min_display_level, time_format, time_precision, show_categories,
                   show_level, search_term, search_regex, search_with_regex,
                   search_with_case_sensitive>>
    /\ UNCHANGED inputVars

\* clear() emptying the ledger and leaving the records stored
ClearKeepsRecords ==
    /\ ~panicked
    /\ category_counts' = EmptyCounts
    /\ call' = Called("clear", Info, <<>>)
    /\ UNCHANGED <<records, ingested, max_message_length, max_records_per_level, panicked>>
    /\ UNCHANGED filterVars
    /\ UNCHANGED inputVars

\* clear() as HashMap::clear on the store: the level keys go with the records
ClearRemovesLevels ==
    /\ ~panicked
    /\ records' = [l \in {} |-> <<>>]
    /\ category_counts' = EmptyCounts
    /\ ingested' = [l \in LogLevel |-> <<>>]
    /\ call' = Called("clear", Info, <<>>)
    /\ UNCHANGED <<max_message_length, max_records_per_level, panicked>>
    /\ UNCHANGED filterVars
    /\ UNCHANGED inputVars

\* clear()
Clear ==
    /\ ~panicked
    /\ records' = [l \in DOMAIN records |-> <<>>]
    /\ category_counts' = EmptyCounts
    /\ ingested' = [l \in LogLevel |-> <<>>]
    /\ call' = Called("clear", Info, <<>>)
    /\ UNCHANGED <<max_message_length, max_records_per_level, panicked>>
    /\ UNCHANGED filterVars
    /\ UNCHANGED inputVars

\* the write of max_records_per_level enforcing the new bound at once
SetMaxRecordsPerLevelEnforces(n) ==
    LET st == EnforceLimits([records |-> records, counts |-> category_counts,
                             underflow |-> FALSE], n)
    IN  /\ ~panicked
        /\ max_records_per_level' = n
        /\ records' = st.records
        /\ category_counts' = st.counts
        /\ call' = Called("set_max_records_per_level", Info, <<>>)
        /\ UNCHANGED <<max_message_length, ingested, panicked>>
        /\ UNCHANGED filterVars
        /\ UNCHANGED inputVars

\* logger.max_records_per_level = n
SetMaxRecordsPerLevel(n) ==
    /\ ~panicked
    /\ max_records_per_level' = n
    /\ call' = Called("set_max_records_per_level", Info, <<>>)
    /\ UNCHANGED <<records, category_counts, max_message_length, ingested, panicked>>
    /\ UNCHANGED filterVars
    /\ UNCHANGED inputVars

\* logger.max_message_length = n
SetMaxMessageLength(n) ==
    /\ ~panicked
    /\ max_message_length' = n
    /\ call' = Called("set_max_message_length", Info, <<>>)
    /\ UNCHANGED <<records, category_counts, max_records_per_level, ingested, panicked>>
    /\ UNCHANGED filterVars
    /\ UNCHANGED inputVars

\* logger.min_display_level = level; the Log Levels menu does the same
SetMinDisplayLevel(level) ==
    /\ ~panicked
    /\ min_display_level' = level
    /\ call' = Called("write_config", Info, <<>>)
    /\ UNCHANGED storeVars
    /\ UNCHANGED inputVars
    /\ UNCHANGED <<hidden_categories, time_format, time_precision,
                   show_categories, show_level, search_term, search_regex,
                   search_with_regex, search_with_case_sensitive>>

\* hide_category(category) removing a name that is already hidden
HideCategoryToggles(category) ==
    /\ ~panicked
    /\ hidden_categories' = IF category \in hidden_categories
                            THEN hidden_categories \ {category}
                            ELSE hidden_categories \cup {category}
    /\ call' = Called("hide_category", Info, <<>>)
    /\ UNCHANGED storeVars
    /\ UNCHANGED inputVars
    /\ UNCHANGED <<min_display_level, time_format, time_precision,
                   show_categories, show_level, search_term, search_regex,
                   search_with_regex, search_with_case_sensitive>>

\* hide_category(category)
HideCategory(category) ==
    /\ ~panicked
    /\ hidden_categories' = hidden_categories \cup {category}
    /\ call' = Called("hide_category", Info, <<>>)
    /\ UNCHANGED storeVars
    /\ UNCHANGED inputVars
    /\ UNCHANGED <<min_display_level, time_format, time_precision,
                   show_categories, show_level, search_term, search_regex,
                   search_with_regex, search_with_case_sensitive>>

\* show_category(category)
ShowCategory(category) ==
    /\ ~panicked
    /\ hidden_categories' = hidden_categories \ {category}
    /\ call' = Called("show_category", Info, <<>>)
    /\ UNCHANGED storeVars
    /\ UNCHANGED inputVars
    /\ UNCHANGED <<min_display_level, time_format, time_precision,
                   show_categories, show_level, search_term, search_regex,
                   search_with_regex, search_with_case_sensitive>>

\* the Categories menu: a click on Select All
MenuSelectAll ==
    /\ ~panicked
    /\ hidden_categories' = {}
    /\ call' = Called("categories_menu", Info, <<>>)
    /\ UNCHANGED storeVars
    /\ UNCHANGED inputVars
    /\ UNCHANGED <<min_display_level, time_format, time_precision,
                   show_categories, show_level, search_term, search_regex,
                   search_with_regex, search_with_case_sensitive>>

\* the Categories menu: a click on Unselect All
MenuUnselectAll ==
    /\ ~panicked
    /\ hidden_categories' = hidden_categories \cup GetAllCategories
    /\ call' = Called("categories_menu", Info, <<>>)
    /\ UNCHANGED storeVars
    /\ UNCHANGED inputVars
    /\ UNCHANGED <<min_display_level, time_format, time_precision,
                   show_categories, show_level, search_term, search_regex,
                   search_with_regex, search_with_case_sensitive>>

\* the Categories menu: a click on the label of a category of the ledger
MenuToggle(cat_str) ==
    /\ ~panicked
    /\ cat_str \in DOMAIN category_counts
    /\ hidden_categories' = IF cat_str \notin hidden_categories
                            THEN hidden_categories \cup {cat_str}
                            ELSE hidden_categories \ {cat_str}
    /\ call' = Called("categories_menu", Info, <<>>)
    /\ UNCHANGED storeVars
    /\ UNCHANGED inputVars
    /\ UNCHANGED <<min_display_level, time_format, time_precision,
                   show_categories, show_level, search_term, search_regex,
                   search_with_regex, search_with_case_sensitive>>

\* logger.time_format = format
SetTimeFormat(format) ==
    /\ ~panicked
    /\ time_format' = format
    /\ call' = Called("write_config", Info, <<>>)
    /\ UNCHANGED storeVars
    /\ UNCHANGED inputVars
    /\ UNCHANGED <<min_display_level, hidden_categories, time_precision,
                   show_categories, show_level, search_term, search_regex,
                   search_with_regex, search_with_case_sensitive>>

\* logger.time_precision = precision
SetTimePrecision(precision) ==
    /\ ~panicked
    /\ time_precision' = precision
    /\ call' = Called("write_config", Info, <<>>)
    /\ UNCHANGED storeVars
    /\ UNCHANGED inputVars
    /\ UNCHANGED <<min_display_level, hidden_categories, time_format,
                   show_categories, show_level, search_term, search_regex,
                   search_with_regex, search_with_case_sensitive>>

\* logger.show_categories = show
SetShowCategories(show) ==
    /\ ~panicked
    /\ show_categories' = show
    /\ call' = Called("write_config", Info, <<>>)
    /\ UNCHANGED storeVars
    /\ UNCHANGED inputVars
    /\ UNCHANGED <<min_display_level, hidden_categories, time_format,
                   time_precision, show_level, search_term, search_regex,
                   search_with_regex, search_with_case_sensitive>>

\* logger.show_level = show
SetShowLevel(show) ==
    /\ ~panicked
    /\ show_level' = show
    /\ call' = Called("write_config", Info, <<>>)
    /\ UNCHANGED storeVars
    /\ UNCHANGED inputVars
    /\ UNCHANGED <<min_display_level, hidden_categories, time_format,
                   time_precision, show_categories, search_term,
                   search_regex, search_with_regex,
                   search_with_case_sensitive>>

\* logger.search_term = term
SetSearchTerm(term) ==
    /\ ~panicked
    /\ search_term' = term
    /\ call' = Called("write_config", Info, <<>>)
    /\ UNCHANGED storeVars
    /\ UNCHANGED inputVars
    /\ UNCHANGED <<min_display_level, hidden_categories, time_format,
                   time_precision, show_categories, show_level, search_regex,
                   search_with_regex, search_with_case_sensitive>>

\* logger.search_with_regex = on
SetSearchWithRegex(on) ==
    /\ ~panicked
    /\ search_with_regex' = on
    /\ call' = Called("write_config", Info, <<>>)
    /\ UNCHANGED storeVars
    /\ UNCHANGED inputVars
    /\ UNCHANGED <<min_display_level, hidden_categories, time_format,
                   time_precision, show_categories, show_level, search_term,
                   search_regex, search_with_case_sensitive>>

\* logger.search_with_case_sensitive = on
SetSearchWithCaseSensitive(on) ==
    /\ ~panicked
    /\ search_with_case_sensitive' = on
    /\ call' = Called("write_config", Info, <<>>)
    /\ UNCHANGED storeVars
    /\ UNCHANGED inputVars
    /\ UNCHANGED <<min_display_level, hidden_categories, time_format,
                   time_precision, show_categories, show_level, search_term,
                   search_regex, search_with_regex>>

\* update_search_regex()
UpdateSearchRegex ==
    /\ ~panicked
    /\ search_regex' = IF search_with_regex
                       THEN RegexBuild(search_term, ~search_with_case_sensitive)
                       ELSE search_regex
    /\ call' = Called("update_search_regex", Info, <<>>)
    /\ UNCHANGED storeVars
    /\ UNCHANGED inputVars
    /\ UNCHANGED <<min_display_level, hidden_categories, time_format,
                   time_precision, show_categories, show_level, search_term,
                   search_with_regex, search_with_case_sensitive>>

\* a method taking &self that also compiles the search pattern
QueryCompilesPattern(op) ==
    /\ ~panicked
    /\ search_regex' = RegexBuild(search_term, ~search_with_case_sensitive)
    /\ call' = Called(op, Info, <<>>)
    /\ UNCHANGED storeVars
    /\ UNCHANGED inputVars
    /\ UNCHANGED <<min_display_level, hidden_categories, time_format, time_precision,
                   show_categories, show_level, search_term,
                   search_with_regex, search_with_case_sensitive>>

\* filtered_records(), matches_filters(record), total_records() and
\* get_all_categories() take &self: the caller gets a value (FilteredRecords,
\* MatchesFilters, TotalRecords, GetAllCategories) and the logger is left as
\* it is
Query(op) ==
    /\ ~panicked
    /\ call' = Called(op, Info, <<>>)
    /\ UNCHANGED storeVars
    /\ UNCHANGED filterVars
    /\ UNCHANGED inputVars

\* serde's name of a LogLevel variant, and the variant of a name
VariantName(level) ==
    IF level = Error THEN "Error"
    ELSE IF level = Warn THEN "Warn"
    ELSE IF level = Info THEN "Info"
    ELSE "Debug"

VariantOf(name) == CHOOSE level \in LogLevel : VariantName(level) = name

\* chrono's serde of a DateTime: the RFC 3339 text of the instant, and the
\* instant of a text
SerializeTime(t) == Rfc3339(t, "Milliseconds")
DeserializeTime(text) == CHOOSE t \in Timestamps : SerializeTime(t) = text

\* derive(Serialize, Deserialize) of LogRecord
SerializeRecord(r) ==
    [timestamp |-> SerializeTime(r.timestamp), level |-> VariantName(r.level),
     categories |-> r.categories, message |-> r.message]

DeserializeRecord(d) ==
    [timestamp |-> DeserializeTime(d.timestamp), level |-> VariantOf(d.level),
     categories |-> d.categories, message |-> d.message]

\* derive(Serialize) of EguiLogger: every field but the three marked
\* #[serde(skip)] (should_focus_search, search_regex, should_focus_input)
Serialize ==
    [records |-> [name \in {VariantName(l) : l \in DOMAIN records} |->
                     [i \in 1..Len(records[VariantOf(name)]) |->
                         SerializeRecord(records[VariantOf(name)][i])]],
     category_counts |-> category_counts,
     min_display_level |-> VariantName(min_display_level),
     hidden_categories |-> hidden_categories,
     time_format |-> time_format,
     time_precision |-> time_precision,
     show_categories |-> show_categories,
     show_level |-> show_level,
     show_search |-> show_search,
     max_message_length |-> max_message_length,
     max_records_per_level |-> max_records_per_level,
     search_term |-> search_term,
     search_with_regex |-> search_with_regex,
     search_with_case_sensitive |-> search_with_case_sensitive,
     show_input_area |-> show_input_area,
     input_text |-> input_text,
     input_text_prefix |-> input_text_prefix,
     input_categories |-> input_categories,
     input_level |-> VariantName(input_level)]

\* derive(Deserialize) also compiling the pattern of the restored term
DeserializeCompilesPattern(data) ==
    [records |-> [l \in {VariantOf(name) : name \in DOMAIN data.records} |->
                     [i \in 1..Len(data.records[VariantName(l)]) |->
                         DeserializeRecord(data.records[VariantName(l)][i])]],
     category_counts |-> data.category_counts,
     min_display_level |-> VariantOf(data.min_display_level),
     hidden_categories |-> data.hidden_categories,
     time_format |-> data.time_format,
     time_precision |-> data.time_precision,
     show_categories |-> data.show_categories,
     show_level |-> data.show_level,
     show_search |-> data.show_search,
     should_focus_search |-> FALSE,
     max_message_length |-> data.max_message_length,
     max_records_per_level |-> data.max_records_per_level,
     search_term |-> data.search_term,
     search_regex |-> RegexBuild(data.search_term, ~data.search_with_case_sensitive),
     search_with_regex |-> data.search_with_regex,
     search_with_case_sensitive |-> data.search_with_case_sensitive,
     show_input_area |-> data.show_input_area,
     should_focus_input |-> FALSE,
     input_text |-> data.input_text,
     input_text_prefix |-> data.input_text_prefix,
     input_categories |-> data.input_categories,
     input_level |-> VariantOf(data.input_level)]

\* derive(Deserialize) of EguiLogger: a skipped field gets Default::default(),
\* false for a bool and None for the Option<Regex>
Deserialize(data) ==
    [records |-> [l \in {VariantOf(name) : name \in DOMAIN data.records} |->
                     [i \in 1..Len(data.records[VariantName(l)]) |->
                         DeserializeRecord(data.records[VariantName(l)][i])]],
     category_counts |-> data.category_counts,
     min_display_level |-> VariantOf(data.min_display_level),
     hidden_categories |-> data.hidden_categories,
     time_format |-> data.time_format,
     time_precision |-> data.time_precision,
     show_categories |-> data.show_categories,
     show_level |-> data.show_level,
     show_search |-> data.show_search,
     should_focus_search |-> FALSE,
     max_message_length |-> data.max_message_length,
     max_records_per_level |-> data.max_records_per_level,
     search_term |-> data.search_term,
     search_regex |-> <<>>,
     search_with_regex |-> data.search_with_regex,
     search_with_case_sensitive |-> data.search_with_case_sensitive,
     show_input_area |-> data.show_input_area,
     should_focus_input |-> FALSE,
     input_text |-> data.input_text,
     input_text_prefix |-> data.input_text_prefix,
     input_categories |-> data.input_categories,
     input_level |-> VariantOf(data.input_level)]

\* the logger replaced by the one deserialized from data; the records it
\* holds are those ingested since
Restore(data) ==
    LET logger == Deserialize(data)
    IN  /\ ~panicked
        /\ records' = logger.records
        /\ category_counts' = logger.category_counts
        /\ min_display_level' = logger.min_display_level
        /\ hidden_categories' = logger.hidden_categories
        /\ time_format' = logger.time_format
        /\ time_precision' = logger.time_precision
        /\ show_categories' = logger.show_categories
        /\ show_level' = logger.show_level
        /\ show_search' = logger.show_search
        /\ should_focus_search' = logger.should_focus_search
        /\ max_message_length' = logger.max_message_length
        /\ max_records_per_level' = logger.max_records_per_level
        /\ search_term' = logger.search_term
        /\ search_regex' = logger.search_regex
        /\ search_with_regex' = logger.search_with_regex
        /\ search_with_case_sensitive' = logger.search_with_case_sensitive
        /\ show_input_area' = logger.show_input_area
        /\ should_focus_input' = logger.should_focus_input
        /\ input_text' = logger.input_text
        /\ input_text_prefix' = logger.input_text_prefix
        /\ input_categories' = logger.input_categories
        /\ input_level' = logger.input_level
        /\ ingested' = logger.records
        /\ call' = Called("restore", Info, <<>>)
        /\ UNCHANGED panicked

\* logger.should_focus_input = value
SetShouldFocusInput(value) ==
    /\ ~panicked
    /\ should_focus_input' = value
    /\ call' = Called("write_config", Info, <<>>)
    /\ UNCHANGED storeVars
    /\ UNCHANGED filterVars
    /\ UNCHANGED <<show_search, should_focus_search, show_input_area,
                   input_text, input_text_prefix, input_categories, input_level>>

\* set_should_focus_search(value)
SetShouldFocusSearch(value) ==
    /\ ~panicked
    /\ should_focus_search' = value
    /\ call' = Called("set_should_focus_search", Info, <<>>)
    /\ UNCHANGED storeVars
    /\ UNCHANGED filterVars
    /\ UNCHANGED <<show_search, show_input_area, should_focus_input,
                   input_text, input_text_prefix, input_categories, input_level>>

\* logger.input_level = level
SetInputLevel(level) ==
    /\ ~panicked
    /\ input_level' = level
    /\ call' = Called("write_config", Info, <<>>)
    /\ UNCHANGED storeVars
    /\ UNCHANGED filterVars
    /\ UNCHANGED <<show_search, should_focus_search, show_input_area,
                   should_focus_input, input_text, input_text_prefix, input_categories>>

\* logger.input_text_prefix = prefix
SetInputTextPrefix(prefix) ==
    /\ ~panicked
    /\ input_text_prefix' = prefix
    /\ call' = Called("write_config", Info, <<>>)
    /\ UNCHANGED storeVars
    /\ UNCHANGED filterVars
    /\ UNCHANGED <<show_search, should_focus_search, show_input_area,
                   should_focus_input, input_text, input_categories, input_level>>

\* set_input_categories(categories)
SetInputCategories(categories) ==
    /\ ~panicked
    /\ input_categories' = [i \in 1..Len(categories) |-> categories[i]]
    /\ call' = Called("set_input_categories", Info, <<>>)
    /\ UNCHANGED storeVars
    /\ UNCHANGED filterVars
    /\ UNCHANGED <<show_search, should_focus_search, show_input_area,
                   should_focus_input, input_text, input_text_prefix, input_level>>

\* ui.rs: the limits of the search term and of the input prefix, in chars
SearchTermLimit == 512
InputPrefixLimit == 128

\* char::is_control and the chars removed by str::trim, on the chars of the model
ControlChars == {"NL", "TAB"}
Whitespace == {" ", "NL", "TAB"}

\* chars().take(n) without the limit
TakeAll(s, n) == s

\* s.chars().take(n).collect()
Take(s, n) == IF Len(s) <= n THEN s ELSE SubSeq(s, 1, n)

\* the search bar's cleaning of search_term
Sanitize(term) ==
    Take(SelectSeq(term, LAMBDA c : c # "NL" /\ c \notin ControlChars), SearchTermLimit)

\* s.trim().is_empty()
IsBlank(s) == \A i \in 1..Len(s) : s[i] \in Whitespace

\* what the user does during a frame: at most one click on a widget and at
\* most one key event in a text field that has the focus
Click(button) ==
    [button |-> button, level |-> Info, cat_str |-> "A",
     time_format |-> "LocalTime", time_precision |-> "Seconds"]
Key(key, text) == [key |-> key, text |-> text]

\* render_logger_ui(logger, ui), one frame, the clock reading now: the top
\* controls (Clear, Copy, the Filter menu, Search, the Format menu), then the
\* search bar when show_search, then the log display, then the input area
\* when show_input_area
RenderLoggerUi(click, key, now) ==
    LET \* Clear
        cleared == click.button = "Clear"
        records0 == IF cleared THEN [l \in DOMAIN records |-> <<>>] ELSE records
        counts0 == IF cleared THEN EmptyCounts ELSE category_counts
        ingested0 == IF cleared THEN [l \in LogLevel |-> <<>>] ELSE ingested
        \* Search: toggles the bar and asks for the focus when it opens
        show_search1 == IF click.button = "Search" THEN ~show_search ELSE show_search
        focus_search1 == (click.button = "Search" /\ show_search1) \/ should_focus_search
        show_input_area1 == IF click.button = "Show Input Area"
                            THEN ~show_input_area ELSE show_input_area
        \* the search bar: the edited term, cleaned on every frame
        edited_term == IF key.key = "type_search" THEN key.text ELSE search_term
        changed == edited_term # search_term
        term2 == IF show_search1 THEN Sanitize(edited_term) ELSE search_term
        case2 == IF click.button = "Aa"
                 THEN ~search_with_case_sensitive ELSE search_with_case_sensitive
        regex2 == IF click.button = ".*" THEN ~search_with_regex ELSE search_with_regex
        config_changed == click.button \in {"Aa", ".*"}
        \* the input area: the edited text within char_limit(max_message_length)
        typed_input == IF key.key = "type_input"
                       THEN Take(key.text, max_message_length) ELSE input_text
        ctrl_f == key.key = "ctrl_f"
        \* Enter: log_info(input_categories, prefix + input)
        submits == key.key = "enter" /\ ~IsBlank(typed_input)
        submitted_text == Take(input_text_prefix, InputPrefixLimit) \o typed_input
        cleaned == CleanRecord(GetLogRecord(Info, input_categories, submitted_text, now),
                               max_message_length)
        st == EnforceLimits(
                  [records |-> [records0 EXCEPT ![Info] = Append(@, cleaned.record)],
                   counts |-> CountIncAll(counts0, cleaned.record.categories),
                   underflow |-> FALSE],
                  max_records_per_level)
    IN  /\ ~panicked
        \* a widget is clicked or typed in on a frame that shows it
        /\ click.button \in {"Aa", ".*"} => show_search
        /\ click.button = "category" => click.cat_str \in DOMAIN category_counts
        /\ key.key = "type_search" => show_search1
        /\ key.key \in {"type_input", "ctrl_f", "enter"} => show_input_area1
        /\ min_display_level' = IF click.button = "Log Levels"
                                THEN click.level ELSE min_display_level
        /\ hidden_categories' =
              IF click.button = "Select All" THEN {}
              ELSE IF click.button = "Unselect All"
              THEN hidden_categories \cup DOMAIN category_counts
              ELSE IF click.button = "category"
              THEN (IF click.cat_str \notin hidden_categories
                    THEN hidden_categories \cup {click.cat_str}
                    ELSE hidden_categories \ {click.cat_str})
              ELSE hidden_categories
        /\ time_format' = IF click.button = "Time" THEN click.time_format ELSE time_format
        /\ time_precision' = IF click.button = "Precision"
                             THEN click.time_precision ELSE time_precision
        /\ show_categories' = IF click.button = "Show Categories"
                              THEN ~show_categories ELSE show_categories
        /\ show_level' = IF click.button = "Show Log Level" THEN ~show_level ELSE show_level
        /\ show_input_area' = show_input_area1
        /\ search_term' = term2
        /\ search_with_case_sensitive' = case2
        /\ search_with_regex' = regex2
        /\ search_regex' = IF show_search1 /\ regex2 /\ (changed \/ config_changed)
                           THEN RegexBuild(term2, ~case2) ELSE search_regex
        \* Ctrl+F in the input area comes after the search bar of the frame
        /\ show_search' = (ctrl_f \/ show_search1)
        /\ should_focus_search' = (ctrl_f \/ (~show_search1 /\ focus_search1))
        /\ should_focus_input' = (~show_input_area1 /\ should_focus_input)
        /\ input_text' = IF submits THEN <<>> ELSE typed_input
        /\ call' = Called("render_logger_ui", Info,
                          IF submits THEN submitted_text ELSE <<>>)
        /\ UNCHANGED <<max_message_length, max_records_per_level, input_text_prefix,
                       input_categories, input_level>>
        /\ IF ~submits
           THEN /\ records' = records0
                /\ category_counts' = counts0
                /\ ingested' = ingested0
                /\ UNCHANGED panicked
           ELSE IF cleaned.panic
           THEN /\ records' = records0
                /\ category_counts' = counts0
                /\ ingested' = ingested0
                /\ panicked' = TRUE
           ELSE /\ records' = st.records
                /\ category_counts' = st.counts
                /\ ingested' = [ingested0 EXCEPT ![Info] = Append(@, cleaned.record)]
                /\ panicked' \in (IF st.underflow THEN {TRUE, FALSE} ELSE {FALSE})

----------------------------------------------------------------------------
(* Specifications. *)

StoreLog ==
    /\ Ingested < MaxIngest
    /\ \E level \in StoreLevels, categories \in CategoryLists,
          message \in StoreMessages, now \in Timestamps :
            Log(level, categories, message, now)

StoreLogRecord ==
    /\ Ingested < MaxIngest
    /\ \E level \in StoreLevels, categories \in CategoryLists,
          message \in StoreMessages, timestamp \in Timestamps :
            LogRecord([timestamp |-> timestamp, level |-> level,
                       categories |-> categories, message |-> message])

WriteMaxRecordsPerLevel == \E n \in 0..MaxRecordsWritten : SetMaxRecordsPerLevel(n)

\* the store under ingestion, eviction, clear and writes to max_records_per_level
Next ==
    \/ StoreLog
    \/ StoreLogRecord
    \/ Clear
    \/ WriteMaxRecordsPerLevel

Spec == Init /\ [][Next]_vars

\* the store with max_records_per_level written once, before the first ingestion
InitFixedBound ==
    /\ records = DefaultRecords
    /\ category_counts = EmptyCounts
    /\ max_message_length = DefaultMaxMessageLength
    /\ max_records_per_level \in 0..MaxRecordsWritten
    /\ InitFilter
    /\ InitInput
    /\ ingested = [l \in LogLevel |-> <<>>]
    /\ call = Called("set_max_records_per_level", Info, <<>>)
    /\ panicked = FALSE

NextFixedBound ==
    \/ StoreLog
    \/ StoreLogRecord
    \/ Clear

SpecFixedBound == InitFixedBound /\ [][NextFixedBound]_vars

\* message cleaning: one message at a time is logged into an empty store
MsgCategoryLists == {<<>>, <<"A">>}

MsgLog ==
    /\ Ingested = 0
    /\ \E level \in LogLevel, categories \in MsgCategoryLists, message \in Messages :
            Log(level, categories, message, 0)

MsgLogRecord ==
    /\ Ingested = 0
    /\ \E level \in LogLevel, categories \in MsgCategoryLists, message \in Messages :
            LogRecord([timestamp |-> 0, level |-> level,
                       categories |-> categories, message |-> message])

WriteMaxMessageLength == \E n \in 0..MaxLengthWritten : SetMaxMessageLength(n)

NextMsg ==
    \/ MsgLog
    \/ MsgLogRecord
    \/ Clear
    \/ WriteMaxMessageLength

SpecMsg == Init /\ [][NextMsg]_vars

\* the three gates of the filter over a store with at most one record at
\* each of the four levels
CategoryNames == {"A", "B"}
FilterCategoryLists == {<<"A">>, <<"A", "B">>}
FilterTerms == {<<>>, <<"O">>}

FilterLog ==
    \E level \in LogLevel, categories \in FilterCategoryLists :
        /\ ingested[level] = <<>>
        /\ Log(level, categories, <<"a">>, 0)

WriteMinDisplayLevel == \E level \in LogLevel : SetMinDisplayLevel(level)
CallHideCategory == \E category \in CategoryNames : HideCategory(category)
CallShowCategory == \E category \in CategoryNames : ShowCategory(category)
ClickToggle == \E cat_str \in CategoryNames : MenuToggle(cat_str)
WriteFilterTerm == \E term \in FilterTerms : SetSearchTerm(term)

NextFilter ==
    \/ FilterLog
    \/ Clear
    \/ WriteMinDisplayLevel
    \/ CallHideCategory
    \/ CallShowCategory
    \/ MenuSelectAll
    \/ MenuUnselectAll
    \/ ClickToggle
    \/ WriteFilterTerm

SpecFilter == Init /\ [][NextFilter]_vars

\* the store under eviction with a fixed bound, and categories hidden and shown
OrderCategoryLists == {<<"A">>, <<"B">>}

OrderLog ==
    /\ Ingested < MaxIngest
    /\ \E level \in StoreLevels, categories \in OrderCategoryLists,
          now \in Timestamps :
            Log(level, categories, <<"a">>, now)

OrderLogRecord ==
    /\ Ingested < MaxIngest
    /\ \E level \in StoreLevels, categories \in OrderCategoryLists,
          timestamp \in Timestamps :
            LogRecord([timestamp |-> timestamp, level |-> level,
                       categories |-> categories, message |-> <<"a">>])

NextOrder ==
    \/ OrderLog
    \/ OrderLogRecord
    \/ Clear
    \/ CallHideCategory
    \/ CallShowCategory
    \/ MenuSelectAll
    \/ MenuUnselectAll
    \/ ClickToggle

SpecOrder == InitFixedBound /\ [][NextOrder]_vars

\* the search gate: one record at a time under every search configuration
SearchLevels == {Info, Error}
SearchMessages == {<<"a", "b">>, <<"A", "b">>}
SearchTerms == {<<>>, <<"a", "b">>, <<"A">>, <<"B">>, <<"O">>, <<"(">>}

SearchLog ==
    /\ Ingested = 0
    /\ \E level \in SearchLevels, message \in SearchMessages :
            Log(level, <<"B">>, message, 0)

WriteSearchTerm == \E term \in SearchTerms : SetSearchTerm(term)
WriteSearchWithRegex == \E on \in BOOLEAN : SetSearchWithRegex(on)
WriteSearchWithCaseSensitive == \E on \in BOOLEAN : SetSearchWithCaseSensitive(on)
WriteShowLevel == \E show \in BOOLEAN : SetShowLevel(show)
WriteShowCategories == \E show \in BOOLEAN : SetShowCategories(show)
WriteTimeFormat == \E format \in TimeFormat : SetTimeFormat(format)
WriteTimePrecision == \E precision \in TimePrecision : SetTimePrecision(precision)

NextSearch ==
    \/ SearchLog
    \/ Clear
    \/ WriteSearchTerm
    \/ WriteSearchWithRegex
    \/ WriteSearchWithCaseSensitive
    \/ UpdateSearchRegex
    \/ WriteShowLevel
    \/ WriteShowCategories
    \/ WriteTimeFormat
    \/ WriteTimePrecision

SpecSearch == Init /\ [][NextSearch]_vars

\* writes to each public configuration field, over a store of at most two
\* Error records
ConfigWriteMinDisplayLevel == \E level \in {Debug, Warn} : SetMinDisplayLevel(level)
ConfigWriteMaxRecordsPerLevel ==
    \E n \in {0, DefaultMaxRecordsPerLevel} : SetMaxRecordsPerLevel(n)
ConfigWriteSearchTerm == \E term \in {<<>>, <<"a">>} : SetSearchTerm(term)

NextConfig ==
    \/ /\ Len(ingested[Error]) <= 1
       /\ Log(Error, <<"A">>, <<"a", "a">>, 0)
    \/ ConfigWriteMinDisplayLevel
    \/ \E format \in {"LocalTime", "Hide"} : SetTimeFormat(format)
    \/ WriteTimePrecision
    \/ WriteShowCategories
    \/ WriteShowLevel
    \/ \E n \in {1, DefaultMaxMessageLength} : SetMaxMessageLength(n)
    \/ ConfigWriteMaxRecordsPerLevel
    \/ ConfigWriteSearchTerm
    \/ WriteSearchWithRegex
    \/ WriteSearchWithCaseSensitive

SpecConfig == Init /\ [][NextConfig]_vars

\* the four queries, over a store of at most one record at each of two
\* levels and a filter configuration under change
QueryLevels == {Info, Error}

NextQuery ==
    \/ \E level \in QueryLevels, categories \in {<<"A">>, <<"B">>} :
          /\ ingested[level] = <<>>
          /\ Log(level, categories, <<"a">>, 0)
    \/ ConfigWriteMinDisplayLevel
    \/ CallHideCategory
    \/ CallShowCategory
    \/ \E term \in {<<>>, <<"a">>, <<"(">>} : SetSearchTerm(term)
    \/ WriteSearchWithRegex
    \/ UpdateSearchRegex
    \/ Query("filtered_records")
    \/ Query("matches_filters")
    \/ Query("total_records")
    \/ Query("get_all_categories")

SpecQuery == Init /\ [][NextQuery]_vars

\* a logger persisted and restored, its records, hidden categories,
\* configuration, focus requests and compiled pattern under change
NextRestore ==
    \/ \E level \in QueryLevels, now \in Timestamps :
          /\ ingested[level] = <<>>
          /\ Log(level, <<"A">>, <<"a">>, now)
    \/ CallHideCategory
    \/ ConfigWriteMaxRecordsPerLevel
    \/ ConfigWriteSearchTerm
    \/ WriteSearchWithRegex
    \/ UpdateSearchRegex
    \/ \E value \in BOOLEAN : SetShouldFocusInput(value)
    \/ \E value \in BOOLEAN : SetShouldFocusSearch(value)
    \/ Restore(Serialize)

SpecRestore == Init /\ [][NextRestore]_vars

\* a logger restored from persisted data whose ledger was edited: every
\* counter set to zero, or every key removed
RestoreEdited ==
    \E counts \in {[c \in DOMAIN category_counts |-> 0], EmptyCounts} :
        Restore([Serialize EXCEPT !.category_counts = counts])

NextEdited ==
    \/ \E categories \in {<<"A">>, <<"A", "B">>} :
          /\ Len(ingested[Error]) <= 1
          /\ Log(Error, categories, <<"a">>, 0)
    \/ Clear
    \/ ConfigWriteMaxRecordsPerLevel
    \/ RestoreEdited

SpecEdited == Init /\ [][NextEdited]_vars

\* frames of the search bar and of the input area, with direct writes to
\* search_term, input_level and should_focus_input and calls of
\* set_input_categories and filtered_records
FrameTerms == {<<"a">>, <<"NL", "a">>}
FrameButtons == {"none", "Search", ".*", "Clear", "Show Input Area"}

NextFrame ==
    \/ \E button \in FrameButtons :
          RenderLoggerUi(Click(button), Key("none", <<>>), 0)
    \/ \E term \in FrameTerms :
          RenderLoggerUi(Click("none"), Key("type_search", term), 0)
    \/ \E text \in {<<"a">>, <<" ">>} :
          RenderLoggerUi(Click("none"), Key("type_input", text), 0)
    \/ RenderLoggerUi(Click("none"), Key("ctrl_f", <<>>), 0)
    \/ /\ ingested[Info] = <<>>
       /\ RenderLoggerUi(Click("none"), Key("enter", <<>>), 0)
    \/ \E term \in FrameTerms : SetSearchTerm(term)
    \/ \E level \in {Info, Error} : SetInputLevel(level)
    \/ \E categories \in {<<"A">>, <<"Input">>} : SetInputCategories(categories)
    \/ \E value \in BOOLEAN : SetShouldFocusInput(value)
    \/ Query("filtered_records")

SpecFrame == Init /\ [][NextFrame]_vars

\* frames of the input area: text typed and submitted with Enter, under
\* writes to input_text_prefix, max_message_length and max_records_per_level
NextSubmit ==
    \/ \E text \in {<<"a">>, <<" ">>, <<"a", " ">>} :
          RenderLoggerUi(Click("none"), Key("type_input", text), 0)
    \/ /\ Len(ingested[Info]) <= 1
       /\ RenderLoggerUi(Click("none"), Key("enter", <<>>), 0)
    \/ RenderLoggerUi(Click("Clear"), Key("none", <<>>), 0)
    \/ \E prefix \in {<<>>, <<"NL", "p">>, [i \in 1..(InputPrefixLimit + 1) |-> "p"]} :
          SetInputTextPrefix(prefix)
    \/ \E n \in {MaxLengthWritten, DefaultMaxMessageLength} : SetMaxMessageLength(n)
    \/ ConfigWriteMaxRecordsPerLevel

SpecSubmit == Init /\ [][NextSubmit]_vars

\* records with and without categories, one at a level, under the Categories
\* menu, hide_category and show_category, and writes to min_display_level
\* and search_term
NextUncategorized ==
    \/ \E level \in {Info, Warn}, categories \in {<<>>, <<"A">>, <<"A", "B">>} :
          /\ ingested[level] = <<>>
          /\ Log(level, categories, <<"a">>, 0)
    \/ Clear
    \/ MenuUnselectAll
    \/ MenuSelectAll
    \/ CallHideCategory
    \/ CallShowCategory
    \/ WriteMinDisplayLevel
    \/ WriteFilterTerm

SpecUncategorized == Init /\ [][NextUncategorized]_vars

----------------------------------------------------------------------------
(* Properties. *)

Categories == {"A", "B"}
IngestOps == {"log", "log_record"}

Min(a, b) == IF a <= b THEN a ELSE b

\* the last n elements of s
LastN(s, n) == SubSeq(s, Len(s) - n + 1, Len(s))

\* the record committed by the last ingestion
Committed == ingested[call.level][Len(ingested[call.level])]

\* the last operation was an ingestion that committed its record
JustIngested == call.op \in IngestOps /\ ~panicked

\* every level holds at most max_records_per_level records
WithinBound == \A l \in LogLevel : Len(records[l]) <= max_records_per_level

\* this step pushed a record at level l
IngestsAt(l) == Len(ingested'[l]) = Len(ingested[l]) + 1

\* the occurrences of category c in a list of categories / in the records of a level
RECURSIVE OccurrencesIn(_, _)
OccurrencesIn(c, categories) ==
    IF categories = <<>> THEN 0
    ELSE (IF Head(categories) = c THEN 1 ELSE 0) + OccurrencesIn(c, Tail(categories))

RECURSIVE OccurrencesAt(_, _)
OccurrencesAt(c, recs) ==
    IF recs = <<>> THEN 0
    ELSE OccurrencesIn(c, Head(recs).categories) + OccurrencesAt(c, Tail(recs))

Occurrences(c) ==
    OccurrencesAt(c, records[Debug]) + OccurrencesAt(c, records[Info])
        + OccurrencesAt(c, records[Warn]) + OccurrencesAt(c, records[Error])

\* C1: after every ingestion (log or log_record) that committed a record, each
\* of the four levels holds at most max_records_per_level records, whatever
\* was written to max_records_per_level before.
RetentionBoundAfterIngestion == JustIngested => WithinBound

\* C1 witness: an ingestion has just evicted: a level is full and has lost records
RetentionBoundReached ==
    /\ JustIngested
    /\ max_records_per_level >= 1
    /\ Len(records[call.level]) = max_records_per_level
    /\ Len(ingested[call.level]) > max_records_per_level

\* C2: for every category name, the ledger count (an absent key counted as 0)
\* equals the number of occurrences of the name in the categories of the
\* records stored in the four sequences.
LedgerConsistent ==
    \A c \in Categories \cup DOMAIN category_counts :
        CountOf(category_counts, c) = Occurrences(c)

\* C2 witness: after evictions a key is left at 0 while another name is still
\* counted twice
LedgerAfterEviction ==
    /\ "B" \in DOMAIN category_counts
    /\ category_counts["B"] = 0
    /\ CountOf(category_counts, "A") >= 2
    /\ \E l \in LogLevel : Len(ingested[l]) > Len(records[l])

\* C3 as stated: an ingestion at level l leaves the sequences of the three
\* other levels as they were.
OtherLevelsUntouched ==
    [][\A l \in LogLevel :
          IngestsAt(l) => \A k \in LogLevel \ {l} : records'[k] = records[k]]_vars

\* C3 amended: an ingestion at level l enforces retention for all four levels:
\* each other level keeps its newest max_records_per_level records, so it is
\* unchanged when it is within the bound and loses records from the front
\* only when it is over the bound.
OtherLevelsTrimmedToBound ==
    [][\A l \in LogLevel :
          IngestsAt(l) =>
              \A k \in LogLevel \ {l} :
                  records'[k] =
                      LastN(records[k], Min(Len(records[k]), max_records_per_level))]_vars

\* C3 witness: an ingestion at one level has acted while another level holds
\* records up to the bound
IngestedBesideFullLevel ==
    /\ JustIngested
    /\ max_records_per_level >= 1
    /\ \E k \in LogLevel \ {call.level} : Len(records[k]) = max_records_per_level

\* C4: with max_records_per_level = m fixed, after n ingestions at a level
\* (since new() or the last clear()) the level holds exactly the last
\* min(n, m) records ingested there, in ingestion order, whatever their
\* timestamps: eviction always takes the earliest ingested record.
FifoEviction ==
    \A l \in LogLevel :
        records[l] =
            LastN(ingested[l], Min(Len(ingested[l]), max_records_per_level))

\* C4 witness: a record was evicted from a level whose stored records carry
\* out-of-order timestamps, the evicted one not being the oldest by timestamp
FifoEvictionOutOfOrder ==
    \E l \in LogLevel :
        /\ Len(ingested[l]) = 3
        /\ Len(records[l]) = 2
        /\ ingested[l][1].timestamp > ingested[l][2].timestamp
        /\ records[l][1].timestamp < records[l][2].timestamp

\* C5 as stated: every level holds at most max_records_per_level records in
\* every reachable state.
BoundAtAllTimes == WithinBound

\* C5 amended: a state with a level over the bound is entered only by a write
\* that lowers max_records_per_level, and while a level is over the bound
\* only steps that leave the records untouched keep it so: every other step
\* (an ingestion, clear) ends with all levels within the bound.
BoundBrokenOnlyByLowering ==
    [][\/ WithinBound'
       \/ /\ records' = records
          /\ ~WithinBound \/ max_records_per_level' < max_records_per_level]_vars

\* C5 witness: max_records_per_level was just lowered below the length of a level
LoweredBelowLength ==
    /\ call.op = "set_max_records_per_level"
    /\ \E l \in LogLevel : Len(records[l]) > max_records_per_level

\* s with every newline char removed, by recursion on s
RECURSIVE WithoutNewlines(_)
WithoutNewlines(s) ==
    IF s = <<>> THEN <<>>
    ELSE IF Head(s) = "NL" THEN WithoutNewlines(Tail(s))
    ELSE <<Head(s)>> \o WithoutNewlines(Tail(s))

\* the last operation was log(.., message) with a message whose
\* newline-stripped length (String::len, in bytes) exceeds max_message_length
LoggedLong ==
    /\ call.op = "log"
    /\ ByteLen(WithoutNewlines(call.message)) > max_message_length

\* C6 (on the values max_message_length >= 3, where a message of
\* max_message_length chars can end in "..."): for every message whose
\* newline-stripped length exceeds max_message_length, log stores a message
\* of exactly max_message_length chars: the first max_message_length - 3
\* chars of the cleaned message followed by "...".
TruncatedToExactLength ==
    (LoggedLong /\ max_message_length >= 3) =>
        /\ ~panicked
        /\ Len(Committed.message) = max_message_length
        /\ Committed.message =
               SubSeq(WithoutNewlines(call.message), 1, max_message_length - 3)
                   \o Ellipsis

\* C7: every record committed by log or log_record has a message of at most
\* max_message_length (the value in force at the commit), for every value of
\* max_message_length.
CommittedWithinLength ==
    JustIngested => ByteLen(Committed.message) <= max_message_length

\* C8: log has no error outcome: it completes and commits a record for every
\* level, category list, message and max_message_length.
LogAlwaysCommits ==
    call.op = "log" =>
        /\ ~panicked
        /\ Len(ingested[call.level]) = 1
        /\ Committed.level = call.level

ShortMessageStoredClean ==
    (call.op = "log"
        /\ ByteLen(WithoutNewlines(call.message)) <= max_message_length) =>
        /\ ~panicked
        /\ Committed.message = WithoutNewlines(call.message)

\* C10 witness: the raw message is longer than max_message_length, the
\* cleaned one is not, and it is stored untruncated
CleanedFitsRawDoesNot ==
    /\ call.op = "log"
    /\ ~panicked
    /\ ByteLen(call.message) > max_message_length
    /\ ByteLen(WithoutNewlines(call.message)) <= max_message_length
    /\ Len(Committed.message) >= 2
    /\ Committed.message = WithoutNewlines(call.message)

\* C11: with no hidden categories and an empty search term, for each of the
\* four values of min_display_level, filtered_records() returns exactly the
\* stored records whose severity is at least min_display_level in the order
\* Debug < Info < Warn < Error.
LevelThresholdAdmits ==
    (hidden_categories = {} /\ search_term = <<>>) =>
        \A order \in LevelOrders, now \in Timestamps :
            FilteredRecords(order, now) =
                SelectSeq(Flatten(order, records),
                          LAMBDA r : r.level >= min_display_level)

\* C11 witness: one record is stored at each level and the threshold Warn
\* lets exactly the records of Warn and Error through
WarnThresholdOnFourLevels ==
    /\ \A l \in LogLevel : Len(records[l]) = 1
    /\ hidden_categories = {}
    /\ search_term = <<>>
    /\ min_display_level = Warn
    /\ \E order \in LevelOrders :
           /\ Len(FilteredRecords(order, 0)) = 2
           /\ \A i \in 1..2 : FilteredRecords(order, 0)[i].level \in {Warn, Error}

\* the stored records, and the category names a record carries
StoredRecords == UNION {{records[l][i] : i \in 1..Len(records[l])} : l \in LogLevel}
Carried(r) == {r.categories[i] : i \in 1..Len(r.categories)}

\* the records returned by filtered_records(), as a set
Returned(order, now) ==
    LET filtered == FilteredRecords(order, now)
    IN  {filtered[i] : i \in 1..Len(filtered)}

\* C12: a stored record is absent from filtered_records() whenever at least
\* one of its categories is in hidden_categories, even if its other
\* categories are visible; a record none of whose categories is hidden is
\* not excluded by the category gate: it is returned when it is at or above
\* min_display_level and the search term is empty.
HiddenCategoryExcludes ==
    \A order \in LevelOrders, now \in Timestamps :
        LET returned == Returned(order, now)
        IN  \A r \in StoredRecords :
                /\ Carried(r) \cap hidden_categories # {} => r \notin returned
                /\ (/\ Carried(r) \cap hidden_categories = {}
                    /\ r.level >= min_display_level
                    /\ search_term = <<>>) => r \in returned

\* C12 witness: only B is hidden; a record carrying A and B is excluded
\* while a record carrying only A is returned
OneHiddenOfTwoCategories ==
    /\ hidden_categories = {"B"}
    /\ search_term = <<>>
    /\ \E r, q \in StoredRecords, order \in LevelOrders :
           /\ r.categories = <<"A", "B">>
           /\ r.level >= min_display_level
           /\ r \notin Returned(order, 0)
           /\ q.categories = <<"A">>
           /\ q \in Returned(order, 0)

\* what filtered_records() returns when the search term is empty: the stored
\* records that pass the level and the category gates
ReturnedWithoutSearch(order) ==
    SelectSeq(Flatten(order, records),
              LAMBDA r : /\ r.level >= min_display_level
                         /\ Carried(r) \cap hidden_categories = {})

\* a pattern with a group that is never closed, or closed before it is opened
RECURSIVE Unbalanced(_, _)
Unbalanced(pattern, open) ==
    IF pattern = <<>> THEN open # 0
    ELSE IF Head(pattern) = "(" THEN Unbalanced(Tail(pattern), open + 1)
    ELSE IF Head(pattern) = ")" THEN open = 0 \/ Unbalanced(Tail(pattern), open - 1)
    ELSE Unbalanced(Tail(pattern), open)

RECURSIVE StartsWith(_, _)
StartsWith(text, term) ==
    \/ term = <<>>
    \/ /\ text # <<>>
       /\ Head(text) = Head(term)
       /\ StartsWith(Tail(text), Tail(term))

RECURSIVE OccursIn(_, _)
OccursIn(term, text) ==
    \/ StartsWith(text, term)
    \/ text # <<>> /\ OccursIn(term, Tail(text))

\* C14: in non-regex mode with a non-empty search_term, a record passes the
\* filter (the two other gates being open) iff its formatted text contains
\* the term: exactly when search_with_case_sensitive is on, after
\* lower-casing both sides when it is off (the default); the result depends
\* on the flag's value only, so toggling it on and back off restores it.
SubstringSearchByCase ==
    (~search_with_regex /\ search_term # <<>>
        /\ min_display_level = Debug /\ hidden_categories = {}) =>
        \A now \in Timestamps, r \in StoredRecords :
            MatchesFilters(r, now) <=>
                IF search_with_case_sensitive
                THEN OccursIn(search_term, FormatRecordText(r, now))
                ELSE OccursIn(ToLowercase(search_term),
                              ToLowercase(FormatRecordText(r, now)))

\* C14 witness: the term "A" is absent from the line of the stored record
\* "ab" as written and present after lower-casing; the flag is off and the
\* record passes
CaseFoldedMatchOnly ==
    /\ ~search_with_regex
    /\ ~search_with_case_sensitive
    /\ search_term = <<"A">>
    /\ \E r \in StoredRecords :
           /\ r.message = <<"a", "b">>
           /\ ~OccursIn(search_term, FormatRecordText(r, 0))
           /\ MatchesFilters(r, 0)

\* the parts of a rendered line
TimePart(r, now) == PadLeft(FormatTime(r.timestamp), Len(FormatTime(now)))
LevelTag(r) == <<"[">> \o AsStr(r.level) \o <<"]", " ">>
CategoryTag(r) == <<"[">> \o Join(r.categories) \o <<"]", " ">>

\* the line with the level tag and the category tag rendered or not
Line(r, now, with_level, with_categories) ==
    TimePart(r, now) \o (IF with_level THEN LevelTag(r) ELSE <<>>)
        \o (IF with_categories THEN CategoryTag(r) ELSE <<>>) \o r.message

\* the search term occurs in a text, under the case mode in force
TermIn(text) ==
    IF search_with_case_sensitive
    THEN OccursIn(search_term, text)
    ELSE OccursIn(ToLowercase(search_term), ToLowercase(text))

\* C15: the search gate reads the rendered line: the padded time, then
\* "[LEVEL] " iff show_level, then "[cat1,cat2] " iff show_categories, then
\* the message.  In non-regex mode a term that occurs in the level tag and
\* not in the line without it matches iff show_level is on, likewise for
\* the category tag and show_categories, and a term that occurs in the
\* message matches under every flag combination.
SearchReadsRenderedLine ==
    search_term # <<>> =>
        \A now \in Timestamps, r \in StoredRecords :
            /\ MatchesFilters(r, now) <=>
                   SearchMatches(Line(r, now, show_level, show_categories))
            /\ ~search_with_regex =>
                   /\ (TermIn(LevelTag(r))
                          /\ ~TermIn(Line(r, now, FALSE, show_categories)))
                       => (MatchesFilters(r, now) <=> show_level)
                   /\ (TermIn(CategoryTag(r))
                          /\ ~TermIn(Line(r, now, show_level, FALSE)))
                       => (MatchesFilters(r, now) <=> show_categories)
                   /\ TermIn(r.message) => MatchesFilters(r, now)

\* C15 witness: the term "O" occurs only in the level tag of the stored
\* record; show_level is off and the record is rejected
LevelTagTermWithLevelHidden ==
    /\ ~search_with_regex
    /\ search_term = <<"O">>
    /\ ~show_level
    /\ show_categories
    /\ \E r \in StoredRecords :
           /\ TermIn(LevelTag(r))
           /\ ~TermIn(Line(r, 0, FALSE, TRUE))
           /\ ~MatchesFilters(r, 0)

\* the three gates, read off a record and the configuration
AtOrAboveThreshold(r) == r.level >= min_display_level
NoCategoryHidden(r) == Carried(r) \cap hidden_categories = {}
TermInLine(r, now) ==
    search_term = <<>> \/ TermIn(Line(r, now, show_level, show_categories))

\* C16: in non-regex mode filtered_records() contains a stored record iff
\* the record passes all three gates: the result is the stored records in
\* the intersection of what the level, category and search gates admit, so
\* with one gate open (threshold Debug, nothing hidden, or an empty term) it
\* is exactly what the two others admit.
FilterIsIntersection ==
    ~search_with_regex =>
        \A order \in LevelOrders, now \in Timestamps :
            FilteredRecords(order, now) =
                SelectSeq(Flatten(order, records),
                          LAMBDA r : /\ AtOrAboveThreshold(r)
                                     /\ NoCategoryHidden(r)
                                     /\ TermInLine(r, now))

\* C16 witness: the three filters are active at once; of four stored
\* records one is below the threshold, one is rejected by the category gate
\* alone, one by the search gate alone, and one is returned
ThreeGatesActive ==
    /\ ~search_with_regex
    /\ min_display_level = Info
    /\ hidden_categories = {"B"}
    /\ search_term = <<"O">>
    /\ \E below, hidden, unmatched, passing \in StoredRecords :
           /\ ~AtOrAboveThreshold(below)
           /\ AtOrAboveThreshold(hidden) /\ ~NoCategoryHidden(hidden)
                 /\ TermInLine(hidden, 0)
           /\ AtOrAboveThreshold(unmatched) /\ NoCategoryHidden(unmatched)
                 /\ ~TermInLine(unmatched, 0)
           /\ \A order \in LevelOrders : FilteredRecords(order, 0) = <<passing>>

\* the store and the ledger are empty, as the three queries report it
ReportsEmpty ==
    /\ TotalRecords = 0
    /\ GetAllCategories = {}
    /\ \A l \in LogLevel : records[l] = <<>>
    /\ \A order \in LevelOrders, now \in Timestamps : FilteredRecords(order, now) = <<>>

\* C17: clear() empties the four sequences and the ledger: after it
\* total_records() is 0 and get_all_categories() and filtered_records() are
\* empty, whatever the filter configuration; a second clear() changes
\* neither the sequences nor the ledger.
ClearEmptiesAndIsIdempotent ==
    [][call'.op = "clear" =>
          /\ ReportsEmpty'
          /\ call.op = "clear" => UNCHANGED <<records, category_counts>>]_vars

\* C17 witness: clear() has just run under an active filter configuration
\* and the queries report an empty store
ClearedUnderFilters ==
    /\ call.op = "clear"
    /\ ReportsEmpty
    /\ hidden_categories = {"B"}
    /\ min_display_level = Warn
    /\ search_term # <<>>

\* C18: hidden_categories is changed only by hide_category, show_category
\* and the Categories menu; log, log_record (with the evictions they make)
\* and clear leave it as it is, so a category hidden before its records were
\* evicted or cleared is still hidden when a record carrying it is ingested.
HiddenCategoriesFrame ==
    [][/\ hidden_categories' # hidden_categories =>
              call'.op \in {"hide_category", "show_category", "categories_menu"}
       /\ call'.op \in {"log", "log_record", "clear"} =>
              hidden_categories' = hidden_categories]_vars

\* C18 witness: B is hidden, the level has evicted records, and a record
\* carrying B has just been ingested and is filtered out
IngestedIntoHiddenCategory ==
    /\ JustIngested
    /\ hidden_categories = {"B"}
    /\ "B" \in Carried(Committed)
    /\ Len(ingested[call.level]) > Len(records[call.level])
    /\ Len(records[call.level]) >= 1
    /\ \A order \in LevelOrders : Committed \notin Returned(order, 0)

\* the records of level l in a sequence of records, in the order of the sequence
OfLevel(recs, l) == SelectSeq(recs, LAMBDA r : r.level = l)

\* the current times that can tell two evaluations of the filter apart: the
\* clock is read for the padding of the searched line only, so with an empty
\* search term one time stands for all
TimesRead ==
    IF search_term = <<>> THEN {CHOOSE now \in Timestamps : TRUE} ELSE Timestamps

\* C19: in filtered_records(), whatever the order in which the levels are
\* visited, the records of one level appear in ingestion order: they are the
\* records of the level still stored (the last ones ingested) that pass the
\* filter, the one ingested earlier before the one ingested later, after any
\* sequence of ingestions and evictions.
SameLevelInIngestionOrder ==
    ~search_with_regex =>
        \A order \in LevelOrders, now \in TimesRead :
            LET filtered == FilteredRecords(order, now)
            IN  \A l \in LogLevel :
                    OfLevel(filtered, l) =
                        SelectSeq(LastN(ingested[l], Len(records[l])),
                                  LAMBDA r : /\ AtOrAboveThreshold(r)
                                             /\ NoCategoryHidden(r)
                                             /\ TermInLine(r, now))

\* C19 witness: a level has evicted its first record and returns the two
\* others in ingestion order, the earlier one carrying the later timestamp
ReturnedAgainstTimestamps ==
    \E l \in LogLevel, order \in LevelOrders :
        /\ Len(ingested[l]) = 3
        /\ ingested[l][2].timestamp > ingested[l][3].timestamp
        /\ OfLevel(FilteredRecords(order, 0), l) = <<ingested[l][2], ingested[l][3]>>

\* the category names carried by the records ingested since new() or the
\* last clear()
IngestedNames ==
    UNION {UNION {Carried(ingested[l][i]) : i \in 1..Len(ingested[l])} : l \in LogLevel}

\* C20: get_all_categories() is the key set of the ledger, which is the set
\* of category names carried by any record ingested since construction or
\* the last clear(): a name stays after all its records were evicted and
\* its count dropped to 0, and names leave the set only through clear().
LedgerKeysAreIngestedNames ==
    [][/\ GetAllCategories' = IngestedNames'
       /\ GetAllCategories \subseteq GetAllCategories' \/ call'.op = "clear"]_vars

\* C20 witness: every record carrying B was evicted and its count is 0,
\* other records are stored, and B is still returned by get_all_categories()
NameOutlivesItsRecords ==
    /\ "B" \in GetAllCategories
    /\ category_counts["B"] = 0
    /\ TotalRecords >= 1
    /\ \A r \in StoredRecords : "B" \notin Carried(r)

\* the records this step dropped from level k: the front of the level, the
\* pushed record included
EvictedAt(k) ==
    LET pushed == IF IngestsAt(k)
                  THEN records[k] \o <<ingested'[k][Len(ingested'[k])]>>
                  ELSE records[k]
    IN  SubSeq(pushed, 1, Len(pushed) - Len(records'[k]))

\* the occurrences of category c in the records this step dropped
EvictedOccurrences(c) ==
    OccurrencesAt(c, EvictedAt(Debug)) + OccurrencesAt(c, EvictedAt(Info))
        + OccurrencesAt(c, EvictedAt(Warn)) + OccurrencesAt(c, EvictedAt(Error))

\* C21: categories are counted per occurrence and never deduplicated: an
\* ingestion of a record carrying a name k times raises the ledger count of
\* the name by k, each record evicted by the step lowers it by the number of
\* times that record carries the name, and the record pushed by log keeps
\* the categories of the call in the given order, duplicates included.
CategoriesCountedPerOccurrence ==
    [][\A l \in LogLevel :
          (IngestsAt(l) /\ ~panicked') =>
              LET pushed == ingested'[l][Len(ingested'[l])]
              IN  /\ \A c \in Categories :
                        CountOf(category_counts', c) =
                            CountOf(category_counts, c)
                                + OccurrencesIn(c, pushed.categories)
                                - EvictedOccurrences(c)
                  /\ \A categories \in CategoryLists, message \in StoreMessages,
                        now \in Timestamps :
                          (/\ call'.op = "log"
                           /\ pushed.timestamp = now
                           /\ Log(l, categories, message, now)) =>
                              /\ pushed.categories = categories
                              /\ (max_records_per_level >= 1 =>
                                    records'[l][Len(records'[l])].categories = categories)]_vars

\* C21 witness: a record carrying "A" twice was pushed at a level whose
\* earlier record, carrying "A" twice as well, is no longer stored
DuplicateNameIngestedAndEvicted ==
    /\ JustIngested
    /\ Committed.categories = <<"A", "A">>
    /\ Len(ingested[call.level]) = 2
    /\ Len(records[call.level]) = 1
    /\ ingested[call.level][1].categories = <<"A", "A">>
    /\ CountOf(category_counts, "A") = 2

\* C24: in the states reached through new, log, log_record, clear and writes
\* to the configuration, eviction never decrements a counter that is at zero
\* or absent: every name of an evicted record has a ledger entry holding at
\* least the occurrences taken from it, no counter goes below zero and the
\* ingestion does not fail.
EvictionNeverUnderflows ==
    [][\A l \in LogLevel :
          IngestsAt(l) =>
              LET pushed == ingested'[l][Len(ingested'[l])]
              IN  /\ ~panicked'
                  /\ \A c \in Categories :
                        EvictedOccurrences(c) > 0 =>
                            /\ c \in DOMAIN category_counts'
                            /\ category_counts'[c] >= 0
                            /\ CountOf(category_counts, c)
                                   + OccurrencesIn(c, pushed.categories)
                                 >= EvictedOccurrences(c)]_vars

\* C24 witness: with the bound at 0 an ingestion has evicted the record it
\* pushed, taking the counter of "A" down to exactly 0
EvictedDownToZero ==
    /\ JustIngested
    /\ max_records_per_level = 0
    /\ Committed.categories = <<"A", "A">>
    /\ records[call.level] = <<>>
    /\ "A" \in DOMAIN category_counts
    /\ category_counts["A"] = 0

\* C26 as stated: total_records() is the sum of the lengths of the four
\* sequences; a log at a level holding fewer than max_records_per_level
\* records raises it by exactly one, and a log at a level already holding
\* max_records_per_level (>= 1) records leaves it unchanged.
TotalFollowsLoggedLevelOnly ==
    [][\A l \in LogLevel :
          (IngestsAt(l) /\ ~panicked') =>
              /\ TotalRecords' = Len(records'[Debug]) + Len(records'[Info])
                                   + Len(records'[Warn]) + Len(records'[Error])
              /\ (Len(records[l]) < max_records_per_level =>
                    TotalRecords' = TotalRecords + 1)
              /\ ((Len(records[l]) = max_records_per_level
                     /\ max_records_per_level >= 1) =>
                    TotalRecords' = TotalRecords)]_vars

\* C26 amended: total_records() is the sum of the lengths of the four
\* sequences; when the three other levels hold at most max_records_per_level
\* records, a log at a level holding fewer than max_records_per_level raises
\* it by exactly one and a log at a level holding max_records_per_level
\* (>= 1) leaves it unchanged; in every case the total after a log at level
\* l is the sum over the levels of min(length, max_records_per_level), the
\* length of l counted with the pushed record.
TotalAfterLogTrimsEveryLevel ==
    [][\A l \in LogLevel :
          (IngestsAt(l) /\ ~panicked') =>
              /\ TotalRecords' = Len(records'[Debug]) + Len(records'[Info])
                                   + Len(records'[Warn]) + Len(records'[Error])
              /\ TotalRecords' =
                    SumLen([k \in LogLevel |->
                              [i \in 1..Min(Len(records[k]) + (IF k = l THEN 1 ELSE 0),
                                            max_records_per_level) |-> i]],
                           LogLevel)
              /\ (\A k \in LogLevel \ {l} : Len(records[k]) <= max_records_per_level) =>
                    /\ (Len(records[l]) < max_records_per_level =>
                          TotalRecords' = TotalRecords + 1)
                    /\ ((Len(records[l]) = max_records_per_level
                           /\ max_records_per_level >= 1) =>
                          TotalRecords' = TotalRecords)]_vars

\* C26 witness: a log at a full level has evicted one record while another
\* level, within the bound, holds a record
LoggedAtFullLevelBesideAnother ==
    /\ JustIngested
    /\ WithinBound
    /\ max_records_per_level >= 1
    /\ Len(records[call.level]) = max_records_per_level
    /\ Len(ingested[call.level]) = max_records_per_level + 1
    /\ TotalRecords > max_records_per_level

\* the step leaves alone all that filtered_records() reads (the records and
\* the filter configuration), and with an empty search term
\* filtered_records() returns after it what it returned before it, whatever
\* the order of the levels
SameFilteredRecords ==
    /\ UNCHANGED <<records, filterVars>>
    /\ search_term = <<>> =>
          \A order \in LevelOrders :
              FilteredRecords(order, 0)' = FilteredRecords(order, 0)

\* C27: hide_category and show_category are inverse and idempotent over
\* hidden_categories: hide_category(c) leaves exactly hidden_categories with
\* c added, so that for a c not hidden before taking c out again gives the
\* set back; show_category(c) leaves exactly hidden_categories without c;
\* hiding a hidden c, or showing a c that is not hidden, changes neither
\* hidden_categories nor filtered_records(); both accept a name carried by
\* no stored record.
HideAndShowAreInverse ==
    [][\A c \in CategoryNames :
          /\ HideCategory(c) =>
                /\ hidden_categories' = hidden_categories \cup {c}
                /\ c \notin hidden_categories =>
                      hidden_categories' \ {c} = hidden_categories
                /\ c \in hidden_categories =>
                      hidden_categories' = hidden_categories /\ SameFilteredRecords
          /\ ShowCategory(c) =>
                /\ hidden_categories' = hidden_categories \ {c}
                /\ c \in hidden_categories =>
                      hidden_categories' \cup {c} = hidden_categories
                /\ c \notin hidden_categories =>
                      hidden_categories' = hidden_categories /\ SameFilteredRecords]_vars

\* C27 witness: hide_category has hidden "B" while the store holds records
\* and none of them carries "B"
HidNameWithoutRecords ==
    /\ call.op = "hide_category"
    /\ hidden_categories = {"B"}
    /\ "B" \notin DOMAIN category_counts
    /\ TotalRecords >= 2

\* the ten public configuration fields
ConfigFields ==
    <<min_display_level, time_format, time_precision, show_categories, show_level,
      max_message_length, max_records_per_level, search_term, search_with_regex,
      search_with_case_sensitive>>

ConfigWriteOps == {"write_config", "set_max_records_per_level", "set_max_message_length"}

\* C22: a write to a configuration field (min_display_level, time_format,
\* time_precision, show_categories, show_level, max_message_length,
\* max_records_per_level, search_term, search_with_regex,
\* search_with_case_sensitive) changes neither the stored records nor the
\* ledger: no stored message is truncated again and no record is evicted by
\* the write.
ConfigWriteLeavesStore ==
    [][(call'.op \in ConfigWriteOps \/ ConfigFields' # ConfigFields) =>
          /\ records' = records
          /\ category_counts' = category_counts]_vars

\* C22 witness: after a write the Error level holds two records over a bound
\* of 0, each with a message longer than max_message_length
WrittenBelowStoredContent ==
    /\ call.op \in ConfigWriteOps
    /\ max_records_per_level = 0
    /\ max_message_length = 1
    /\ Len(records[Error]) = 2
    /\ \A i \in 1..2 : Len(records[Error][i].message) = 2
    /\ category_counts["A"] = 2

QueryOps == {"filtered_records", "matches_filters", "total_records", "get_all_categories"}

\* the calls of filtered_records() that can differ in a state: the order in
\* which the levels are visited, and the time of the call, read for the
\* searched line only
QueryCalls ==
    IF search_term = <<>>
    THEN LevelOrders \X {0}
    ELSE {<<Error, Warn, Info, Debug>>, <<Debug, Info, Warn, Error>>} \X Timestamps

\* C23: a query (filtered_records, matches_filters, total_records,
\* get_all_categories) leaves the stored records, the ledger,
\* hidden_categories, the configuration fields and the cached pattern as they
\* are, so that a query made right after it reads what it read; and what is
\* read gives one result: filtered_records() returns the same set of records
\* and matches_filters the same answer for every stored record whatever the
\* order of the levels and the time of the call, and the total and the
\* category names after the query are those before it.
QueriesLeaveLoggerAlone ==
    [][call'.op \in QueryOps =>
          /\ records' = records
          /\ category_counts' = category_counts
          /\ hidden_categories' = hidden_categories
          /\ ConfigFields' = ConfigFields
          /\ search_regex' = search_regex
          /\ TotalRecords' = TotalRecords
          /\ GetAllCategories' = GetAllCategories
          /\ \A q \in QueryCalls :
                Returned(q[1], q[2]) = Returned(<<Error, Warn, Info, Debug>>, 0)
          /\ \A now \in Timestamps, r \in StoredRecords :
                MatchesFilters(r, now) = MatchesFilters(r, 0)
          /\ search_term = <<>> =>
                \A order \in LevelOrders :
                    Returned(order, 0)' = Returned(order, 0)]_vars

\* C23 witness: filtered_records() was called on a store of two records under
\* a hidden category, a search term and a compiled pattern, and returns one
\* of the two
QueriedUnderFilters ==
    /\ call.op = "filtered_records"
    /\ TotalRecords = 2
    /\ hidden_categories = {"B"}
    /\ search_term = <<"a">>
    /\ search_with_regex
    /\ search_regex # <<>>
    /\ \E r \in StoredRecords : Returned(<<Error, Warn, Info, Debug>>, 0) = {r}

\* the fields of the search bar and of the text input area that are persisted
PersistedInputFields ==
    <<show_search, show_input_area, input_text, input_text_prefix,
      input_categories, input_level>>

\* C28: persisting and restoring the logger preserves the stored records,
\* the ledger, hidden_categories and every configuration field, and leaves
\* should_focus_search and should_focus_input false and the compiled search
\* pattern absent, whatever they were before.
RestorePreservesAllButTransients ==
    [][call'.op = "restore" =>
          /\ records' = records
          /\ category_counts' = category_counts
          /\ hidden_categories' = hidden_categories
          /\ ConfigFields' = ConfigFields
          /\ PersistedInputFields' = PersistedInputFields
          /\ ~should_focus_search'
          /\ ~should_focus_input'
          /\ search_regex' = <<>>]_vars

\* C28 witness: a logger holding two records, a hidden category, a lowered
\* bound and a regex search has been restored, without its compiled pattern
RestoredWithoutPattern ==
    /\ call.op = "restore"
    /\ TotalRecords = 2
    /\ \E l \in LogLevel : records[l] # <<>> /\ records[l][1].timestamp = 1
    /\ category_counts["A"] = 2
    /\ hidden_categories = {"B"}
    /\ max_records_per_level = 0
    /\ search_with_regex
    /\ search_term = <<"a">>
    /\ search_regex = <<>>

\* C25 as stated: the ledger decrement is guarded against underflow: when an
\* ingestion evicts a record one of whose categories has its counter at
\* zero, the counter stays at zero and the ingestion completes without
\* failing or wrapping; each counter after the step is the counter before it,
\* raised by the pushed record and lowered by the evicted ones, but not
\* below zero.
DecrementSaturatesAtZero ==
    [][\A l \in LogLevel :
          IngestsAt(l) =>
              LET pushed == ingested'[l][Len(ingested'[l])]
              IN  /\ ~panicked'
                  /\ \A c \in DOMAIN category_counts' :
                        LET counted == CountOf(category_counts, c)
                                           + OccurrencesIn(c, pushed.categories)
                                           - EvictedOccurrences(c)
                        IN  category_counts'[c] = IF counted < 0 THEN 0 ELSE counted]_vars

\* the operations that evaluate matches_filters on the stored records:
\* filtered_records() and the log display of a frame
FilterUses == {"filtered_records", "render_logger_ui"}

\* this step used the search term: it compiled it (update_search_regex), or
\* it evaluated matches_filters on a stored record that passed the level and
\* category gates, with a term that is not empty; the log display of a frame
\* comes before the Enter submit of the frame and does not show its record
UsesSearchTerm ==
    LET shown == IF call'.op = "render_logger_ui" /\ call'.message # <<>>
                 THEN records ELSE records'
    IN  \/ call'.op = "update_search_regex"
        \/ /\ call'.op \in FilterUses
           /\ search_term' # <<>>
           /\ \E l \in LogLevel : \E i \in 1..Len(shown[l]) :
                 /\ shown[l][i].level >= min_display_level'
                 /\ Carried(shown[l][i]) \cap hidden_categories' = {}

\* C29 as stated: whenever the search term is used it holds at most 512
\* chars and no newline or control char, however it was set, typed in the
\* search bar or written to the public field.
UsedTermIsSanitized ==
    [][UsesSearchTerm =>
          /\ Len(search_term') <= SearchTermLimit
          /\ \A i \in 1..Len(search_term') :
                search_term'[i] # "NL" /\ search_term'[i] \notin ControlChars]_vars

\* this step is a frame whose Enter key submitted the text of the input area
Submits == call'.op = "render_logger_ui" /\ call'.message # <<>> /\ ~panicked'

\* C30 as stated: the record created by submitting the text of the input
\* area carries the severity input_level and the categories
\* input_categories, whatever input_level is.
SubmitLogsAtInputLevel ==
    [][Submits =>
          /\ IngestsAt(input_level)
          /\ LET pushed == ingested'[input_level][Len(ingested'[input_level])]
             IN  /\ pushed.level = input_level
                 /\ pushed.categories = input_categories]_vars

\* C31 as stated: should_focus_input is a one-shot trigger: it is false at
\* the end of every rendered frame, for every value of show_input_area.
FocusInputResetByEveryFrame ==
    [][call'.op = "render_logger_ui" => ~should_focus_input']_vars

\* the number of times r occurs in the sequence s
CountIn(s, r) == Cardinality({i \in 1..Len(s) : s[i] = r})

\* s and t hold the same records, each as many times
SameRecords(s, t) ==
    /\ Len(s) = Len(t)
    /\ \A i \in 1..Len(s) : CountIn(s, s[i]) = CountIn(t, s[i])

\* the timestamps of s never decrease
NonDecreasing(s) == \A i \in 1..(Len(s) - 1) : s[i].timestamp <= s[i + 1].timestamp

\* C32: under one filter state the log display and the Copy button present
\* the same sequence: exactly the records of filtered_records(), ordered by
\* non-decreasing timestamp, in whatever order the levels are visited;
\* filtered_records() itself returns them in storage order (see the witness).
DisplayAndCopyAreFilteredByTime ==
    \A order \in LevelOrders : \A now \in TimesRead :
        LET filtered == FilteredRecords(order, now)
            displayed == DisplayedRecords(order, now)
            copied == CopiedRecords(order, now)
        IN  /\ SameRecords(displayed, filtered)
            /\ NonDecreasing(displayed)
            /\ copied = displayed

\* C32 witness: a record is hidden, and filtered_records() returns a record
\* before one with an earlier timestamp, which the display and the copy put
\* first
DisplayedAgainstStorageOrder ==
    \E order \in LevelOrders :
        LET filtered == FilteredRecords(order, 0)
            displayed == DisplayedRecords(order, 0)
        IN  /\ Len(filtered) >= 2
            /\ Len(filtered) < TotalRecords
            /\ ~NonDecreasing(filtered)
            /\ displayed # filtered
            /\ CopiedRecords(order, 0) = displayed
            /\ displayed[1].timestamp < filtered[1].timestamp

\* C33 as stated: in every state where search_with_regex is true and
\* search_term is non-empty, the cached pattern is the result of compiling
\* the current search_term with the current case flag (absent only if that
\* fails), so a stored record that does not match a valid current pattern
\* never passes the search gate.
CachedPatternFollowsTerm ==
    (search_with_regex /\ search_term # <<>>) =>
        LET compiled == RegexBuild(search_term, ~search_with_case_sensitive)
        IN  /\ search_regex = compiled
            /\ \A r \in StoredRecords : \A now \in Timestamps :
                   (compiled # <<>> /\ ~IsMatch(compiled[1], FormatRecordText(r, now)))
                       => ~SearchGate(r, now)

\* the frames of SpecFrame: a click or a key, never both
FrameInputs ==
    {<<Click(button), Key("none", <<>>)>> : button \in FrameButtons}
        \cup {<<Click("none"), Key("ctrl_f", <<>>)>>}

\* C34 as stated: should_focus_search is a one-shot trigger: a frame that
\* starts with it true resets it in its search-bar step (seen at the end of
\* the frame unless Ctrl+F sets it again afterwards), for every combination
\* of Search clicks and Ctrl+F presses in consecutive frames, and it is never
\* true while show_search is false at the end of a frame.
FocusSearchResetByEveryFrame ==
    [][\A input \in FrameInputs :
          RenderLoggerUi(input[1], input[2], 0) =>
              /\ (should_focus_search /\ input[2].key # "ctrl_f")
                     => ~should_focus_search'
              /\ ~show_search' => ~should_focus_search']_vars

\* the text has no char other than white space
OnlyWhitespace(text) == \A i \in 1..Len(text) : text[i] \in {" ", "TAB", "NL"}

\* the first at most InputPrefixLimit chars of input_text_prefix, followed by
\* the typed text
PrefixedInput ==
    SubSeq(input_text_prefix, 1, Min(Len(input_text_prefix), InputPrefixLimit))
        \o input_text

\* the usual cleaning and truncation of a message of one-byte chars, for
\* max_message_length >= 3
CleanedText(message) ==
    LET stripped == SelectSeq(message, LAMBDA c : c # "NL")
    IN  IF Len(stripped) > max_message_length
        THEN SubSeq(stripped, 1, max_message_length - 3) \o <<".", ".", ".">>
        ELSE stripped

\* C35: a frame in which Enter submits the input box commits exactly one
\* record and empties input_text when the input is not blank, the committed
\* message being the first at most 128 chars of input_text_prefix followed
\* by the typed text, cleaned and truncated as usual; when the input is
\* empty or only white space, the store, the ledger and input_text are
\* unchanged.
SubmitCommitsPrefixedText ==
    [][RenderLoggerUi(Click("none"), Key("enter", <<>>), 0) =>
          IF OnlyWhitespace(input_text)
          THEN UNCHANGED <<records, category_counts, ingested, input_text>>
          ELSE /\ IngestsAt(Info)
               /\ \A l \in LogLevel \ {Info} : ingested'[l] = ingested[l]
               /\ SubSeq(ingested'[Info], 1, Len(ingested[Info])) = ingested[Info]
               /\ ingested'[Info][Len(ingested'[Info])].message
                      = CleanedText(PrefixedInput)
               /\ input_text' = <<>>
               /\ ~panicked']_vars

\* C35 witness: the typed text was submitted behind a prefix of more than
\* 128 chars, and the record committed holds the first 128 of them and the
\* typed text; the input box is empty again
SubmittedBehindLongPrefix ==
    /\ call.op = "render_logger_ui"
    /\ Len(input_text_prefix) > InputPrefixLimit
    /\ Len(call.message) = InputPrefixLimit + 1
    /\ call.message[InputPrefixLimit + 1] = "a"
    /\ records[Info] # <<>>
    /\ records[Info][Len(records[Info])].message = call.message
    /\ input_text = <<>>

\* the number of records enforce_limit has to evict from a level of len records
Excess(len) ==
    IF len > max_records_per_level THEN len - max_records_per_level ELSE 0

\* C36: retention enforcement terminates: in an ingestion that commits its
\* record, each level loses exactly max(0, len - max_records_per_level)
\* records from its front (len counting the pushed record) and no more; an
\* empty or within-bound level is left as it is, and with
\* max_records_per_level = 0 every level is emptied, the record just
\* ingested included.
EnforcementEvictsExactExcess ==
    [][(call'.op \in IngestOps /\ ~panicked') =>
          \A k \in LogLevel :
              LET pushed == IF IngestsAt(k)
                            THEN records[k] \o <<ingested'[k][Len(ingested'[k])]>>
                            ELSE records[k]
                  evictions == Len(pushed) - Len(records'[k])
              IN  /\ evictions = Excess(Len(pushed))
                  /\ records'[k] = SubSeq(pushed, evictions + 1, Len(pushed))
                  /\ Len(pushed) <= max_records_per_level => records'[k] = pushed
                  /\ max_records_per_level = 0 => records'[k] = <<>>]_vars

\* C36 witness: with max_records_per_level = 0 an ingestion has emptied the
\* store, its own record included, other levels having held records before
EnforcementEmptiedTheStore ==
    /\ call.op \in IngestOps
    /\ ~panicked
    /\ max_records_per_level = 0
    /\ Len(ingested[call.level]) >= 2
    /\ \E l \in LogLevel \ {call.level} : ingested[l] # <<>>
    /\ \A l \in LogLevel : records[l] = <<>>

\* C37: the store always holds exactly one sequence for each of the four
\* severities: no operation adds or removes a level key, so the lookup of a
\* level in log_record and enforce_limit never fails.
StoreHoldsTheFourLevels == DOMAIN records = {Debug, Info, Warn, Error}

\* C37 witness: clear() has emptied the store while a category is hidden,
\* and the four levels are still there
FourLevelsAfterClear ==
    /\ call.op = "clear"
    /\ hidden_categories # {}
    /\ Cardinality(DOMAIN records) = 4
    /\ \A l \in LogLevel : records[l] = <<>>

\* C38: a stored record with an empty category list is never rejected by the
\* category gate, whatever hidden_categories contains: filtered_records()
\* returns it whenever it passes the severity and search gates.
UncategorizedNeverHidden ==
    \A order \in LevelOrders : \A now \in TimesRead :
        LET returned == Returned(order, now)
        IN  \A r \in StoredRecords :
                (/\ r.categories = <<>>
                 /\ r.level >= min_display_level
                 /\ SearchGate(r, now)) => r \in returned

\* C38 witness: "Unselect All" has hidden every known category; of the two
\* stored records, filtered_records() returns the one without categories,
\* which passes a non-empty search term, and not the other
UncategorizedShownUnderUnselectAll ==
    /\ call.op = "categories_menu"
    /\ GetAllCategories # {}
    /\ GetAllCategories \subseteq hidden_categories
    /\ search_term # <<>>
    /\ TotalRecords = 2
    /\ \E order \in LevelOrders :
          /\ Len(FilteredRecords(order, 0)) = 1
          /\ FilteredRecords(order, 0)[1].categories = <<>>

====
